---- MODULE Spec2Model ----
(***************************************************************************)
(* Model of the pixel-buffer core of the Image-Processing-Toolkit:         *)
(* EdgeDetection (sobel, prewitt, laplacian, canny and their helpers),     *)
(* HistogramEqualization (equalize, clahe, getHistogram, gammaCorrection,  *)
(* sigmoidContrast and their helpers), BasicFilters.gaussianBlur,          *)
(* QualityMetrics (mse, psnr, ssim, compare), Transform.crop and           *)
(* BatchProcessor (batch, pipeline).                                       *)
(*                                                                         *)
(* A buffer is a function from byte index 0..len-1 to 0..255, as a         *)
(* Uint8ClampedArray is.  Every operation is a synchronous call: one       *)
(* action models the whole call, from the validation to the return or the  *)
(* throw.  Real-valued intermediate results are kept exact as scaled       *)
(* integers (a gray value (r+g+b)/3 is kept as r+g+b, a magnitude m as     *)
(* 9*m*m), and every rounding is the rounding the code performs there.     *)
(***************************************************************************)
EXTENDS Integers, Sequences, FiniteSets, TLC

\* ------------------------------------------------------------- bounds
\* Largest width and height of the generated buffers of Spec.
MaxDim == 3
\* Largest gridSize passed to clahe in Spec and SpecPair.
MaxGrid == 2
\* Largest width and height of the generated buffers of SpecPair.
MaxPairDim == 2
\* Largest width and height of the buffers of SpecTiles.
MaxTileDim == 5
\* Largest gridSize passed to clahe in SpecTiles.
MaxTileGrid == 5
\* Largest width and height of the generated buffers of SpecTwice.
MaxTwiceDim == 3
\* Largest width and height of the generated buffers of SpecFilters.
MaxFilterDim == 3
\* Largest number of images in an image array of SpecBatch.
MaxBatch == 3
\* Largest height of a spike of a histogram of SpecHistogram, in units of
\* 64 counts.
MaxSpike == 3
\* Largest width of the buffers of SpecOrder.
MaxOrderWidth == 4
\* Largest width and height of the buffers of SpecGray.
MaxGrayDim == 2

\* ------------------------------------------------------- program constants
\* Number of interleaved channels of a pixel (R, G, B, A).
channels == 4
\* Number of histogram bins and of LUT entries.
NumBins == 256

\* ---------------------------------------------------------- JS values
\* A JS argument with its typeof; val is meaningful for numbers only.
Num(n) == [type |-> "number", val |-> n]
Str == [type |-> "string", val |-> 0]
typeof(x) == x.type

Min(a, b) == IF a < b THEN a ELSE b
Max(a, b) == IF a > b THEN a ELSE b
Abs(a) == IF a < 0 THEN -a ELSE a

\* Math.round(n / d) for d > 0: the nearest integer, halves towards +infinity.
MathRound(n, d) == (2 * n + d) \div (2 * d)

\* Math.floor(n / d) for d > 0: the tile size a grid gets when the division
\* is truncated instead of rounded up (variant used with C7).
MathFloor(n, d) == n \div d

\* Math.ceil(n / d) for d > 0.
MathCeil(n, d) == -((-n) \div d)

\* The function f itself.  Comparing it makes the model checker compute its
\* values once for the whole domain rather than at every application.
Evaluated(f) == IF f = f THEN f ELSE f

\* pixels.length
Length(buf) == Cardinality(DOMAIN buf)

\* new Uint8ClampedArray(n): n zero bytes.
ZeroBuffer(n) == [k \in 0 .. n - 1 |-> 0]

\* ------------------------------------------------------ EdgeDetection
\* The 3x3 kernels, row-major, as the code writes them.
SobelGx == << -1, 0, 1, -2, 0, 2, -1, 0, 1 >>
SobelGy == << -1, -2, -1, 0, 0, 0, 1, 2, 1 >>
PrewittGx == << -1, 0, 1, -1, 0, 1, -1, 0, 1 >>
PrewittGy == << -1, -1, -1, 0, 0, 0, 1, 1, 1 >>
LaplacianKernel == << 0, -1, 0, -1, 4, -1, 0, -1, 0 >>

\* Three times the luma 0.299 R + 0.587 G + 0.114 B of the pixel at byte
\* index idx, to the nearest thousandth: the gray value of a gradient that
\* weighs the channels (variant used with C13).
Gray3Luma(pixels, idx) ==
  (3 * (299 * pixels[idx] + 587 * pixels[idx + 1] + 114 * pixels[idx + 2]))
    \div 1000

\* Three times the gray value of the pixel at byte index idx:
\* gray = (pixels[idx] + pixels[idx+1] + pixels[idx+2]) / 3.
Gray3(pixels, idx) == pixels[idx] + pixels[idx + 1] + pixels[idx + 2]

\* The two inner loops over ki, kj in -1..1 around pixel (row i, column j):
\* three times the sum of gray * kernel[(ki+1)*3 + (kj+1)], from tap n on.
RECURSIVE KernelSum3(_, _, _, _, _, _)
KernelSum3(pixels, width, i, j, kernel, n) ==
  IF n = 9 THEN 0
  ELSE LET ki == (n \div 3) - 1
           kj == (n % 3) - 1
           idx == ((i + ki) * width + (j + kj)) * channels
       IN Gray3(pixels, idx) * kernel[n + 1]
          + KernelSum3(pixels, width, i, j, kernel, n + 1)

\* The pixel with byte index k is written by the loops
\* for i in 1..height-2, for j in 1..width-2 (idx = (i*width + j)*channels).
Interior(k, width, height) ==
  /\ width >= 3
  /\ height >= 3
  /\ LET p == k \div channels
     IN /\ p < width * height
        /\ (p \div width) >= 1 /\ (p \div width) <= height - 2
        /\ (p % width) >= 1 /\ (p % width) <= width - 2

\* The nearest integer to sqrt(s9 / 9) without the min(255, ...): what is
\* written when the magnitude is not clipped (variant used with C14).
UnclippedMagnitude(s9) ==
  CHOOSE k \in 0 .. 1500 :
    /\ 4 * s9 < 9 * (2 * k + 1) * (2 * k + 1)
    /\ (k = 0 \/ 4 * s9 > 9 * (2 * k - 1) * (2 * k - 1))

\* The byte a Uint8ClampedArray stores for max(0, min(255, sqrt(s9 / 9))):
\* the nearest integer (sqrt(s9/9) is never halfway between two integers).
ClippedMagnitude(s9) ==
  IF s9 >= 9 * 255 * 255 THEN 255
  ELSE CHOOSE k \in 0 .. 255 :
         /\ 4 * s9 < 9 * (2 * k + 1) * (2 * k + 1)
         /\ (k = 0 \/ 4 * s9 > 9 * (2 * k - 1) * (2 * k - 1))

\* A gradient that copies the alpha of the border pixels too (variant used
\* with C23).
applyGradientBorderAlpha(pixels, width, height, gx, gy) ==
  [k \in 0 .. Length(pixels) - 1 |->
     IF k % channels = 3 THEN pixels[k]
     ELSE IF ~Interior(k, width, height) THEN 0
     ELSE LET p == k \div channels
              i == p \div width
              j == p % width
              sumGx == KernelSum3(pixels, width, i, j, gx, 0)
              sumGy == KernelSum3(pixels, width, i, j, gy, 0)
          IN ClippedMagnitude(sumGx * sumGx + sumGy * sumGy)]

\* applyGradient: border pixels keep the zero of the fresh buffer; an
\* interior pixel gets the clipped magnitude in R, G, B and its own alpha.
applyGradient(pixels, width, height, gx, gy) ==
  [k \in 0 .. Length(pixels) - 1 |->
     IF ~Interior(k, width, height) THEN 0
     ELSE LET p == k \div channels
              i == p \div width
              j == p % width
              sumGx == KernelSum3(pixels, width, i, j, gx, 0)
              sumGy == KernelSum3(pixels, width, i, j, gy, 0)
          IN IF k % channels = 3 THEN pixels[k]
             ELSE ClippedMagnitude(sumGx * sumGx + sumGy * sumGy)]

\* The loop body of laplacian: clipped = max(0, min(255, |value|)), stored
\* in R, G, B (value is a multiple of 1/3, never halfway), alpha copied.
laplacianBody(pixels, width, height) ==
  [k \in 0 .. Length(pixels) - 1 |->
     IF ~Interior(k, width, height) THEN 0
     ELSE LET p == k \div channels
              value3 == KernelSum3(pixels, width, p \div width, p % width,
                                   LaplacianKernel, 0)
          IN IF k % channels = 3 THEN pixels[k]
             ELSE Min(255, MathRound(Abs(value3), 3))]

\* gaussianBlur (helper of canny): 3x3 box mean with coordinates clamped
\* to the buffer, every pixel written, alpha copied.
RECURSIVE BoxSum(_, _, _, _, _, _, _)
BoxSum(pixels, width, height, i, j, c, n) ==
  IF n = 9 THEN 0
  ELSE LET yi == Min(height - 1, Max(0, i + (n \div 3) - 1))
           xi == Min(width - 1, Max(0, j + (n % 3) - 1))
       IN pixels[(yi * width + xi) * channels + c]
          + BoxSum(pixels, width, height, i, j, c, n + 1)

gaussianBlur(pixels, width, height) ==
  [k \in 0 .. Length(pixels) - 1 |->
     IF width < 1 \/ height < 1 \/ k \div channels >= width * height THEN 0
     ELSE LET p == k \div channels
              c == k % channels
          IN IF c = 3 THEN pixels[k]
             ELSE MathRound(BoxSum(pixels, width, height,
                                   p \div width, p % width, c, 0), 9)]

\* sobelWithGradient: for every pixel the pair (sumGx, sumGy), each times 3;
\* magnitude = sqrt(sumGx^2 + sumGy^2) and direction = atan2(sumGy, sumGx)
\* are functions of the pair.  Border entries keep the zero of the array.
sobelWithGradient(pixels, width, height) ==
  [p \in 0 .. width * height - 1 |->
     IF ~Interior(p * channels, width, height)
     THEN [sumGx |-> 0, sumGy |-> 0]
     ELSE [sumGx |-> KernelSum3(pixels, width, p \div width, p % width,
                                SobelGx, 0),
           sumGy |-> KernelSum3(pixels, width, p \div width, p % width,
                                SobelGy, 0)]]

\* 9 * magnitude^2 of one entry of sobelWithGradient.
Magnitude9Sq(e) == e.sumGx * e.sumGx + e.sumGy * e.sumGy

\* mag > threshold, for a magnitude given as 9 * mag^2 (mag >= 0).
MagExceeds(s9, threshold) == threshold < 0 \/ s9 > 9 * threshold * threshold

\* Step 3 of canny with the two tests in the other order, low threshold
\* first: a strong edge is then written as a weak one (variant used with C4).
cannyClassifyLowFirst(edges, len, lowThreshold, highThreshold) ==
  [k \in 0 .. len - 1 |->
     LET i == k \div channels
     IN IF i \notin DOMAIN edges THEN 0
        ELSE IF MagExceeds(Magnitude9Sq(edges[i]), lowThreshold)
             THEN (IF k % channels = 3 THEN 255 ELSE 128)
        ELSE IF MagExceeds(Magnitude9Sq(edges[i]), highThreshold) THEN 255
        ELSE 0]

\* Step 3 of canny: the byte written at index k for the magnitudes `edges`.
cannyClassify(edges, len, lowThreshold, highThreshold) ==
  [k \in 0 .. len - 1 |->
     LET i == k \div channels
     IN IF i \notin DOMAIN edges THEN 0
        ELSE IF MagExceeds(Magnitude9Sq(edges[i]), highThreshold) THEN 255
        ELSE IF MagExceeds(Magnitude9Sq(edges[i]), lowThreshold)
             THEN (IF k % channels = 3 THEN 255 ELSE 128)
        ELSE 0]

\* ----------------------------------------------- HistogramEqualization
\* Math.round(r*0.299 + g*0.587 + b*0.114): the histogram bin of a pixel in
\* getHistogram and getTileHistogram.  (For the colours whose luma is
\* exactly halfway the floating-point sum may fall on either side; the
\* colours of Palette are not among them.)
LumaBin(r, g, b) == MathRound(299 * r + 587 * g + 114 * b, 1000)

\* The same luma stored into a Uint8ClampedArray (gray[i] of equalize):
\* nearest integer, halves to even.
LumaClamped(r, g, b) ==
  LET n == 299 * r + 587 * g + 114 * b
      q == n \div 1000
      rem == n % 1000
  IN IF rem < 500 THEN q
     ELSE IF rem > 500 THEN q + 1
     ELSE IF q % 2 = 0 THEN q ELSE q + 1

\* new Uint32Array(256)
ZeroHistogram == [i \in 0 .. NumBins - 1 |-> 0]

\* histogram.reduce((a, b) => a + b) over the bins lo..hi (the sum is
\* split in halves: addition is associative on integers).
RECURSIVE SumBins(_, _, _)
SumBins(histogram, lo, hi) ==
  IF lo = hi THEN histogram[lo]
  ELSE LET mid == (lo + hi) \div 2
       IN SumBins(histogram, lo, mid) + SumBins(histogram, mid + 1, hi)

\* The loops of getTileHistogram, from pixel (x, y) on:
\* for y in y1..y2-1, for x in x1..x2-1: histogram[round(gray)] += 1.
RECURSIVE TileLoop(_, _, _, _, _, _, _, _)
TileLoop(pixels, width, x1, x2, y2, x, y, histogram) ==
  IF y >= y2 THEN histogram
  ELSE IF x >= x2
       THEN TileLoop(pixels, width, x1, x2, y2, x1, y + 1, histogram)
  ELSE LET idx == (y * width + x) * channels
           bin == LumaBin(pixels[idx], pixels[idx + 1], pixels[idx + 2])
       IN TileLoop(pixels, width, x1, x2, y2, x + 1, y,
                   [histogram EXCEPT ![bin] = @ + 1])

\* The tile loops started one column late, at x1 + 1 in the first row
\* (variant used with C5).
getTileHistogramSkipFirst(pixels, width, x1, y1, x2, y2) ==
  TileLoop(pixels, width, x1, x2, y2, x1 + 1, y1, ZeroHistogram)

\* The tile loops run over the whole buffer whatever the tile is (variant
\* used with C8).
getTileHistogramWhole(pixels, width, x1, y1, x2, y2) ==
  TileLoop(pixels, width, 0, width, Length(pixels) \div (channels * width),
           0, 0, ZeroHistogram)

getTileHistogram(pixels, width, x1, y1, x2, y2) ==
  TileLoop(pixels, width, x1, x2, y2, x1, y1, ZeroHistogram)

\* The loop of getHistogram, from pixel i on.
RECURSIVE HistogramLoop(_, _, _, _)
HistogramLoop(pixels, n, i, histogram) ==
  IF i >= n THEN histogram
  ELSE LET idx == i * channels
           bin == LumaBin(pixels[idx], pixels[idx + 1], pixels[idx + 2])
       IN HistogramLoop(pixels, n, i + 1, [histogram EXCEPT ![bin] = @ + 1])

getHistogramBody(pixels, width, height) ==
  HistogramLoop(pixels, width * height, 0, ZeroHistogram)

\* A clip limit that is never below one count per bin (variant used
\* with C29).
ClipLimitAtLeastOne(histogram, clipLimit) ==
  Max(1, MathRound(clipLimit * SumBins(histogram, 0, NumBins - 1), NumBins))

\* clipHistogram: limit = Math.round(clipLimit * (sum / numBins)); every
\* bin above the limit is set to the limit.  clipLimit is an integer here.
ClipLimitOf(histogram, clipLimit) ==
  MathRound(clipLimit * SumBins(histogram, 0, NumBins - 1), NumBins)

\* A clip that spreads the excess evenly over the bins, as canonical CLAHE
\* does (variant used with C24).
clipHistogramRedistribute(histogram, clipLimit) ==
  LET limit == ClipLimitOf(histogram, clipLimit)
      excess == SumBins([i \in 0 .. NumBins - 1 |->
                           Max(0, histogram[i] - limit)], 0, NumBins - 1)
  IN [i \in 0 .. NumBins - 1 |->
        Min(histogram[i], limit) + MathCeil(excess, NumBins)]

clipHistogram(histogram, clipLimit) ==
  LET limit == ClipLimitOf(histogram, clipLimit)
  IN [i \in 0 .. NumBins - 1 |->
        IF histogram[i] > limit THEN limit ELSE histogram[i]]

\* The cumulative sums cdf[lo..hi] as a sequence, given base = cdf[lo-1]
\* (0 for lo = 0): cdf[i] = cdf[i-1] + histogram[i].
RECURSIVE CdfRange(_, _, _, _)
CdfRange(histogram, lo, hi, base) ==
  IF lo = hi THEN << base + histogram[lo] >>
  ELSE LET mid == (lo + hi) \div 2
           left == CdfRange(histogram, lo, mid, base)
       IN left \o CdfRange(histogram, mid + 1, hi, left[Len(left)])

\* <<cdf[0], ..., cdf[255]>>
CdfOf(histogram) == CdfRange(histogram, 0, NumBins - 1, 0)

\* Normalize with a zero denominator stored as 255, as a quotient of
\* +Infinity would be.
NormalizeSaturating(num, den) ==
  IF den = 0 THEN 255
  ELSE Max(0, Min(255, MathRound(255 * num, den)))

\* The byte stored for Math.round((num / den) * 255) with 0 <= num <= den:
\* 0/0 is NaN, which a Uint8ClampedArray stores as 0.
Normalize(num, den) ==
  IF den = 0 THEN (IF num = 0 THEN 0 ELSE 255)
  ELSE Max(0, Min(255, MathRound(255 * num, den)))

\* calculateLUT without the cdfMin offset: cdf[i] / numPixels.
calculateLUTNoOffset(histogram) ==
  LET cdf == CdfOf(histogram)
      numPixels == cdf[NumBins]
  IN [i \in 0 .. NumBins - 1 |-> Normalize(cdf[i + 1], numPixels)]

calculateLUT(histogram) ==
  LET cdf == CdfOf(histogram)
      numPixels == cdf[NumBins]
      cdfMin == cdf[1]
  IN [i \in 0 .. NumBins - 1 |-> Normalize(cdf[i + 1] - cdfMin, numPixels - cdfMin)]

\* The histogram of equalize: one count per entry of gray[0 .. n-1].
RECURSIVE GrayLoop(_, _, _, _)
GrayLoop(pixels, n, i, histogram) ==
  IF i >= n THEN histogram
  ELSE LET idx == i * channels
           bin == LumaClamped(pixels[idx], pixels[idx + 1], pixels[idx + 2])
       IN GrayLoop(pixels, n, i + 1, [histogram EXCEPT ![bin] = @ + 1])

\* pdfNorm with cdfMin the smallest count of the CDF that is not zero, as
\* in the textbook formula.
equalizeLUTMinNonZero(pixels, width, height) ==
  LET cdf == CdfOf(GrayLoop(pixels, width * height, 0, ZeroHistogram))
      lowest == CHOOSE i \in 1 .. NumBins :
                 /\ cdf[i] > 0 \/ i = NumBins
                 /\ \A j \in 1 .. i - 1 : cdf[j] = 0
      cdfMin == cdf[lowest]
      numPixels == width * height
  IN [i \in 0 .. NumBins - 1 |->
        IF cdf[i + 1] < cdfMin THEN 0
        ELSE Normalize(cdf[i + 1] - cdfMin, numPixels - cdfMin)]

\* pdfNorm of equalize: the LUT with numPixels = width * height.
equalizeLUT(pixels, width, height) ==
  LET cdf == CdfOf(GrayLoop(pixels, width * height, 0, ZeroHistogram))
      cdfMin == cdf[1]
      numPixels == width * height
  IN [i \in 0 .. NumBins - 1 |-> Normalize(cdf[i + 1] - cdfMin, numPixels - cdfMin)]

\* The last loop of equalize with the LUT looked up by the luma of the
\* pixel in place of the value of the channel.
equalizeBodyByLuma(pixels, width, height) ==
  LET pdfNorm == Evaluated(equalizeLUT(pixels, width, height))
  IN [k \in 0 .. Length(pixels) - 1 |->
        IF k % channels = 3 THEN pixels[k]
        ELSE LET idx == (k \div channels) * channels
             IN pdfNorm[LumaClamped(pixels[idx], pixels[idx + 1],
                                    pixels[idx + 2])]]

\* The last loop of equalize: the LUT on R, G and B, alpha copied.
equalizeBody(pixels, width, height) ==
  LET pdfNorm == Evaluated(equalizeLUT(pixels, width, height))
  IN [k \in 0 .. Length(pixels) - 1 |->
        IF k % channels = 3 THEN pixels[k] ELSE pdfNorm[pixels[k]]]

\* The tile of clahe with its right and bottom edges one pixel further
\* (still clipped to the buffer), so that neighbours overlap (variant used
\* with C6).
claheTileOverlapping(pixels, width, height, clipLimit, gridSize, tileX, tileY) ==
  LET tileWidth == MathCeil(width, gridSize)
      tileHeight == MathCeil(height, gridSize)
      x1 == tileX * tileWidth
      y1 == tileY * tileHeight
      x2 == Min((tileX + 1) * tileWidth + 1, width)
      y2 == Min((tileY + 1) * tileHeight + 1, height)
      tileHistogram == getTileHistogram(pixels, width, x1, y1, x2, y2)
  IN [x1 |-> x1, y1 |-> y1, x2 |-> x2, y2 |-> y2,
      histogram |-> tileHistogram,
      lut |-> calculateLUT(clipHistogram(tileHistogram, clipLimit))]

\* The tile that the loops of clahe reach at (tileX, tileY), with its
\* histogram (before clipping) and its LUT (after clipping).
claheTile(pixels, width, height, clipLimit, gridSize, tileX, tileY) ==
  LET tileWidth == MathCeil(width, gridSize)
      tileHeight == MathCeil(height, gridSize)
      x1 == tileX * tileWidth
      y1 == tileY * tileHeight
      x2 == Min((tileX + 1) * tileWidth, width)
      y2 == Min((tileY + 1) * tileHeight, height)
      tileHistogram == getTileHistogram(pixels, width, x1, y1, x2, y2)
  IN [x1 |-> x1, y1 |-> y1, x2 |-> x2, y2 |-> y2,
      histogram |-> tileHistogram,
      lut |-> calculateLUT(clipHistogram(tileHistogram, clipLimit))]

\* The tiles in the order the loops visit them: tileY outer, tileX inner.
claheTiles(pixels, width, height, clipLimit, gridSize) ==
  [t \in 1 .. gridSize * gridSize |->
     claheTile(pixels, width, height, clipLimit, gridSize,
               (t - 1) % gridSize, (t - 1) \div gridSize)]

\* Pixel (x, y) is inside the loops "for y in y1..y2-1, for x in x1..x2-1".
InTile(tile, x, y) ==
  /\ tile.x1 <= x /\ x < tile.x2
  /\ tile.y1 <= y /\ y < tile.y2

\* The writes of all tiles with the LUT applied to all four channels, alpha
\* included (variant used with C3).
applyTilesAllChannels(pixels, width, height, tiles) ==
  [k \in 0 .. Length(pixels) - 1 |->
     LET p == k \div channels
         writers == IF width < 1 \/ p >= width * height THEN {}
                    ELSE {t \in DOMAIN tiles :
                            InTile(tiles[t], p % width, p \div width)}
     IN IF writers = {} THEN 0
        ELSE LET last == CHOOSE t \in writers : \A u \in writers : u <= t
             IN tiles[last].lut[pixels[k]]]

\* The writes of all tiles on a zeroed buffer: a byte holds what the last
\* tile that contains its pixel wrote, or 0 when no tile contains it.
applyTiles(pixels, width, height, tiles) ==
  [k \in 0 .. Length(pixels) - 1 |->
     LET p == k \div channels
         writers == IF width < 1 \/ p >= width * height THEN {}
                    ELSE {t \in DOMAIN tiles :
                            InTile(tiles[t], p % width, p \div width)}
     IN IF writers = {} THEN 0
        ELSE LET last == CHOOSE t \in writers : \A u \in writers : u <= t
             IN IF k % channels = 3 THEN pixels[k]
                ELSE tiles[last].lut[pixels[k]]]

\* factor = exp(|contrast| * 4) in units of 1/10000, for the contrasts of
\* Contrasts (contrast is given in thousandths: 500 is 0.5).  At this
\* precision every byte rounds as it does with the exact factor.
FactorScaled(contrast) ==
  IF Abs(contrast) = 1000 THEN 545982
  ELSE IF Abs(contrast) = 500 THEN 73891
  ELSE 10000

\* One R, G or B byte of sigmoidContrast:
\* max(0, min(255, Math.round(value * 255))), where value is the byte itself
\* when contrast is 0 and (byte / 255) scaled by the factor otherwise.
sigmoidByte(byte, contrast) ==
  IF contrast > 0
  THEN Max(0, Min(255, MathRound(byte * FactorScaled(contrast), 10000)))
  ELSE IF contrast < 0
  THEN Max(0, Min(255, MathRound(byte * 10000, FactorScaled(contrast))))
  ELSE Max(0, Min(255, byte * 255))

sigmoidBody(pixels, contrast) ==
  [k \in 0 .. Length(pixels) - 1 |->
     IF k % channels = 3 THEN pixels[k] ELSE sigmoidByte(pixels[k], contrast)]

\* One entry of the table of gammaCorrection:
\* table[i] = Math.round((i / 255) ** (1 / gamma) * 255), for the gammas of
\* Gammas (gamma is given in tenths: 5 is 0.5).  (i/255)^2 * 255 is
\* i*i/255 and (i/255)^0.5 * 255 is sqrt(255*i); neither is ever halfway
\* between two integers.
gammaTable(i, gamma) ==
  IF gamma = 5 THEN MathRound(i * i, 255)
  ELSE IF gamma = 20
  THEN CHOOSE k \in 0 .. 255 :
         /\ 4 * 255 * i < (2 * k + 1) * (2 * k + 1)
         /\ (k = 0 \/ 4 * 255 * i > (2 * k - 1) * (2 * k - 1))
  ELSE i

\* The second loop of gammaCorrection: the table on R, G and B, alpha
\* copied.
gammaBody(pixels, gamma) ==
  [k \in 0 .. Length(pixels) - 1 |->
     IF k % channels = 3 THEN pixels[k] ELSE gammaTable(pixels[k], gamma)]

\* ------------------------------------------------------- BasicFilters
\* Math.min(size - 1, Math.max(0, v)): the coordinate the blur samples.
ClampIndex(v, size) == Min(size - 1, Max(0, v))

\* The number of offsets k in -radius..radius for which the tap at i + k
\* samples coordinate c.
ClampCount(i, c, size, radius) ==
  Cardinality({k \in -radius .. radius : ClampIndex(i + k, size) = c})

\* The sum over the (2*radius+1)^2 taps around pixel (row i, column j) of
\* channel ch, the taps grouped by the pixel they sample, from pixel p on.
RECURSIVE TapSum(_, _, _, _, _, _, _, _)
TapSum(pixels, n, width, rowCount, colCount, i, j, p) ==
  IF p = n THEN 0
  ELSE rowCount[i][p \div width] * colCount[j][p % width] * pixels[p]
       + TapSum(pixels, n, width, rowCount, colCount, i, j, p + 1)

\* One channel of the buffer: the bytes k with k % channels = ch.
Channel(pixels, ch) ==
  [p \in 0 .. (Length(pixels) \div channels) - 1 |-> pixels[p * channels + ch]]

\* The loops of BasicFilters.gaussianBlur: every channel of every pixel,
\* alpha included, becomes Math.round(sum / count) over the clamped window;
\* count = (2*radius+1)^2 is odd, so sum / count is never halfway.
blurBody(pixels, width, height, radius) ==
  LET rowCount == Evaluated([i \in 0 .. height - 1 |->
                     [c \in 0 .. height - 1 |->
                        ClampCount(i, c, height, radius)]])
      colCount == Evaluated([j \in 0 .. width - 1 |->
                     [c \in 0 .. width - 1 |->
                        ClampCount(j, c, width, radius)]])
      count == (2 * radius + 1) * (2 * radius + 1)
      plane == Evaluated([ch \in 0 .. channels - 1 |-> Channel(pixels, ch)])
  IN [k \in 0 .. Length(pixels) - 1 |->
        LET p == k \div channels
        IN MathRound(TapSum(plane[k % channels], width * height, width,
                            rowCount, colCount, p \div width, p % width, 0),
                     count)]

\* The kernels of sharpen and emboss, row-major.
SharpenKernel == << 0, -1, 0, -1, 5, -1, 0, -1, 0 >>
EmbossKernel == << -2, -1, 0, -1, 1, 1, 0, 1, 2 >>

\* The two inner loops of applyKernel for channel c of pixel (row i, column
\* j): the sum of pixels[idx + c] * kernel[(ki+1)*3 + (kj+1)], from tap n on.
RECURSIVE KernelSum(_, _, _, _, _, _, _)
KernelSum(pixels, width, i, j, kernel, c, n) ==
  IF n = 9 THEN 0
  ELSE LET ki == (n \div 3) - 1
           kj == (n % 3) - 1
           idx == ((i + ki) * width + (j + kj)) * channels
       IN pixels[idx + c] * kernel[n + 1]
          + KernelSum(pixels, width, i, j, kernel, c, n + 1)

\* BasicFilters.applyKernel with amount = amount2 / 2 (the products and the
\* sums of halves are exact): border pixels keep the zero of the fresh
\* buffer; an interior pixel gets max(0, min(255, Math.round(sum * amount +
\* offset))) in R, G, B and its own alpha.
applyKernel(pixels, width, height, kernel, amount2, offset) ==
  [k \in 0 .. Length(pixels) - 1 |->
     IF ~Interior(k, width, height) THEN 0
     ELSE IF k % channels = 3 THEN pixels[k]
     ELSE LET p == k \div channels
              sum == KernelSum(pixels, width, p \div width, p % width,
                               kernel, k % channels, 0)
          IN Max(0, Min(255, MathRound(sum * amount2 + 2 * offset, 2)))]

\* ----------------------------------------------------------- Transform
\* The byte a Uint8ClampedArray stores when it is assigned pixels[idx]:
\* undefined, read outside the buffer, is stored as 0.
ReadByte(pixels, idx) == IF idx \in DOMAIN pixels THEN pixels[idx] ELSE 0

\* The loops of Transform.crop over cy, cx: output pixel (cx, cy) is read at
\* srcIdx = ((y + cy) * width + (x + cx)) * channels.  With a width that is
\* not a number the product is NaN and every read is undefined.  The loops
\* do not run when cropWidth or cropHeight is negative.
cropBody(pixels, width, x, y, cropWidth, cropHeight) ==
  [k \in 0 .. cropWidth * cropHeight * channels - 1 |->
     IF cropWidth < 0 \/ typeof(width) # "number" THEN 0
     ELSE LET p == k \div channels
              cx == p % cropWidth
              cy == p \div cropWidth
              srcIdx == ((y + cy) * width.val + (x + cx)) * channels
          IN ReadByte(pixels, srcIdx + (k % channels))]

\* ------------------------------------------------------ QualityMetrics
\* const stride = 4 of ssim and sharpness.
stride == 4
\* const maxPixelValue = 255 of psnr.
maxPixelValue == 255

RECURSIVE SumTo(_, _)
\* f[0] + ... + f[n-1]: a sum a loop accumulates.
SumTo(f, n) == IF n = 0 THEN 0 ELSE f[n - 1] + SumTo(f, n - 1)

\* The loop of mse and of psnr: the sum of diff * diff over all bytes.
SquaredError(original, compressed) ==
  SumTo([i \in 0 .. Length(original) - 1 |->
           (original[i] - compressed[i]) * (original[i] - compressed[i])],
        Length(original))

\* mse: sum / original.length, kept as the fraction <<sum, length>>.
mse(original, compressed) ==
  << SquaredError(original, compressed), Length(original) >>

\* psnr: 100 when mse === 0, else 10 * log10(255 * 255 / mse); the argument
\* of the logarithm is kept as the fraction <<255 * 255 * length, sum>>.
psnr(original, compressed) ==
  [perfectMatch |-> SquaredError(original, compressed) = 0,
   ratio |-> << maxPixelValue * maxPixelValue * Length(original),
                SquaredError(original, compressed) >>]

\* getWindowStats: the sums over the windowSize x windowSize window at
\* (startX, startY), read from the first channel of each pixel.  The
\* returned quantities are fractions over pixelCount^2; the record holds
\* their numerators: muX2 = sumX^2, muXmuY = sumX * sumY,
\* sigmaX2 = pixelCount * sumX2 - sumX^2, and so on.
getWindowStats(original, compressed, width, startX, startY, windowSize) ==
  LET pixelCount == windowSize * windowSize
      idx(n) == ((startY + (n \div windowSize)) * width
                   + (startX + (n % windowSize))) * stride
      pixelX == [n \in 0 .. pixelCount - 1 |-> original[idx(n)]]
      pixelY == [n \in 0 .. pixelCount - 1 |-> compressed[idx(n)]]
      sumX == SumTo(pixelX, pixelCount)
      sumY == SumTo(pixelY, pixelCount)
      sumX2 == SumTo([n \in 0 .. pixelCount - 1 |-> pixelX[n] * pixelX[n]],
                     pixelCount)
      sumY2 == SumTo([n \in 0 .. pixelCount - 1 |-> pixelY[n] * pixelY[n]],
                     pixelCount)
      sumXY == SumTo([n \in 0 .. pixelCount - 1 |-> pixelX[n] * pixelY[n]],
                     pixelCount)
  IN [muX2 |-> sumX * sumX,
      muY2 |-> sumY * sumY,
      muXmuY |-> sumX * sumY,
      sigmaX2 |-> pixelCount * sumX2 - sumX * sumX,
      sigmaY2 |-> pixelCount * sumY2 - sumY * sumY,
      sigmaXY |-> pixelCount * sumXY - sumX * sumY]

\* The starts of the windows along one axis:
\* for (v = 0; v + windowSize <= size; v += windowSize).
WindowStarts(size, windowSize) ==
  {v \in 0 .. size - windowSize : v % windowSize = 0}

\* One term numerator / denominator of ssimSum, with
\* numerator = (2 * muXmuY + c1) * (2 * sigmaXY + c2) and
\* denominator = (muX2 + muY2 + c1) * (sigmaX2 + sigmaY2 + c2): the record
\* holds, over pixelCount^2, what each factor adds to its constant.
ssimTerm(stats) ==
  [numerator |-> << 2 * stats.muXmuY, 2 * stats.sigmaXY >>,
   denominator |-> << stats.muX2 + stats.muY2,
                      stats.sigmaX2 + stats.sigmaY2 >>]

\* The loops of ssim: one term per whole window that fits in the image.
\* The value returned is count > 0 ? ssimSum / count : 0.
ssim(original, compressed, width, height, windowSize) ==
  LET terms == [s \in WindowStarts(width, windowSize)
                        \X WindowStarts(height, windowSize) |->
                  ssimTerm(getWindowStats(original, compressed, width,
                                          s[1], s[2], windowSize))]
  IN [count |-> Cardinality(DOMAIN terms), terms |-> terms]

\* The value ssim returns is 1.  Each term is at most 1 (2ab <= a^2 + b^2
\* for the means and for the deviations, c1 and c2 positive), so the mean
\* of the terms is 1 exactly when there is a term and every term has its
\* numerator equal to its denominator, factor by factor.
SsimIsOne(value) ==
  /\ value.count > 0
  /\ \A s \in DOMAIN value.terms :
       value.terms[s].numerator = value.terms[s].denominator

\* The value ssim returns is the 0 of count > 0 ? ... : 0.
SsimIsZero(value) == value.count = 0

\* ------------------------------------------------------ BatchProcessor
\* An image object {name, data, width, height, format} with the two
\* properties the processor adds; a property the object does not have is
\* "undefined".  data is a buffer or null.
Image(name, format, data, w, h) ==
  [name |-> name, format |-> format, data |-> data, width |-> w,
   height |-> h, processed |-> "undefined", error |-> "undefined"]

NullData == [isNull |-> TRUE, bytes |-> << >>]
Data(bytes) == [isNull |-> FALSE, bytes |-> bytes]

\* The brightness filter of the tests: a copy with min(255, v + 50) in R, G
\* and B (new Uint8ClampedArray(null) is an empty array).
brightnessFn(data) ==
  Data([k \in DOMAIN data.bytes |->
          IF k % channels = 3 THEN data.bytes[k]
          ELSE Min(255, data.bytes[k] + 50)])

\* What filterFn(image.data, image.width, image.height) does: the value it
\* returns, or the message of the error it throws.  The filter functions
\* are the identity, the brightness filter and the throwing filter of the
\* tests, and EdgeDetection.sobel, which throws for null data.
filterFn(fn, image) ==
  IF fn = "identity" THEN [threw |-> "", value |-> image.data]
  ELSE IF fn = "brightness"
  THEN [threw |-> "", value |-> brightnessFn(image.data)]
  ELSE IF fn = "error" THEN [threw |-> "Filter failed", value |-> NullData]
  ELSE IF image.data.isNull
  THEN [threw |-> "Invalid edge detection parameters", value |-> NullData]
  ELSE [threw |-> "",
        value |-> Data(applyGradient(image.data.bytes, image.width,
                                     image.height, SobelGx, SobelGy))]

\* The catch branch of a batch callback that marks the image and drops the
\* message (variant used with C22).
batchRecordNoMessage(image, fn) ==
  LET outcome == filterFn(fn, image)
  IN IF outcome.threw = ""
     THEN [image EXCEPT !.data = outcome.value, !.processed = "true"]
     ELSE [image EXCEPT !.processed = "false"]

\* The callback of imageArray.map in batch: try { ...image, data, processed:
\* true } catch { ...image, error: error.message, processed: false }.
batchRecord(image, fn) ==
  LET outcome == filterFn(fn, image)
  IN IF outcome.threw = ""
     THEN [image EXCEPT !.data = outcome.value, !.processed = "true"]
     ELSE [image EXCEPT !.error = outcome.threw, !.processed = "false"]

\* imageArray.map(...) of batch.
batchMap(imageArray, fn) ==
  [k \in 1 .. Len(imageArray) |-> batchRecord(imageArray[k], fn)]

\* What filter(image) does in pipeline: "pass" returns the image it got,
\* "brighten" returns it with brightened data, "error" throws.
pipelineFilter(filter, image) ==
  IF filter = "pass" THEN [threw |-> "", value |-> image]
  ELSE IF filter = "brighten"
  THEN [threw |-> "",
        value |-> [image EXCEPT !.data = brightnessFn(image.data)]]
  ELSE [threw |-> "Pipeline error", value |-> image]

\* The callback of result.map in pipeline.
pipelineRecord(image, filter) ==
  LET outcome == pipelineFilter(filter, image)
  IN IF outcome.threw = "" THEN outcome.value
     ELSE [image EXCEPT !.error = outcome.threw, !.processed = "false"]

\* for (const filter of filters), from filter number f on: a filter that is
\* not a function throws when its turn comes; a function is called on every
\* image of the array of the round before, in array order.  order is the
\* log of the filter numbers in the order of their invocations.
RECURSIVE pipelineLoop(_, _, _, _)
pipelineLoop(current, filters, f, order) ==
  IF f > Len(filters)
  THEN [threw |-> "", result |-> current, order |-> order]
  ELSE IF filters[f] = "notFunction"
  THEN [threw |-> "All pipeline items must be functions", result |-> << >>,
        order |-> order]
  ELSE pipelineLoop([k \in 1 .. Len(current) |->
                       pipelineRecord(current[k], filters[f])],
                    filters, f + 1,
                    order \o [k \in 1 .. Len(current) |-> f])

\* ------------------------------------------------- loops, step by step
\* One pass of the body of the loops of applyGradient, at row i and
\* column j: the sums read pixels, the four bytes of the pixel are written
\* to result.
gradientStepInPlace(pixels, result, width, i, j, gx, gy) ==
  LET idx == (i * width + j) * channels
      sumGx == KernelSum3(result, width, i, j, gx, 0)
      sumGy == KernelSum3(result, width, i, j, gy, 0)
      clipped == ClippedMagnitude(sumGx * sumGx + sumGy * sumGy)
  IN [k \in DOMAIN result |->
        IF k \in {idx, idx + 1, idx + 2} THEN clipped
        ELSE IF k = idx + 3 THEN pixels[k]
        ELSE result[k]]

gradientStep(pixels, result, width, i, j, gx, gy) ==
  LET idx == (i * width + j) * channels
      sumGx == KernelSum3(pixels, width, i, j, gx, 0)
      sumGy == KernelSum3(pixels, width, i, j, gy, 0)
      clipped == ClippedMagnitude(sumGx * sumGx + sumGy * sumGy)
  IN [k \in DOMAIN result |->
        IF k \in {idx, idx + 1, idx + 2} THEN clipped
        ELSE IF k = idx + 3 THEN pixels[k]
        ELSE result[k]]

\* One pass of the body of the loops of laplacian, at row i and column j.
laplacianStep(pixels, result, width, i, j) ==
  LET idx == (i * width + j) * channels
      value3 == KernelSum3(pixels, width, i, j, LaplacianKernel, 0)
      clipped == Min(255, MathRound(Abs(value3), 3))
  IN [k \in DOMAIN result |->
        IF k \in {idx, idx + 1, idx + 2} THEN clipped
        ELSE IF k = idx + 3 THEN pixels[k]
        ELSE result[k]]

\* One pass of the body of the tile loops of clahe, at (tileX, tileY): the
\* histogram and the LUT are made from pixels, the pixels of the tile are
\* written to result.
claheStep(pixels, result, width, height, clipLimit, gridSize, tileX, tileY) ==
  LET tile == Evaluated(claheTile(pixels, width, height, clipLimit, gridSize,
                                  tileX, tileY))
  IN [k \in DOMAIN result |->
        LET p == k \div channels
        IN IF InTile(tile, p % width, p \div width)
           THEN (IF k % channels = 3 THEN pixels[k] ELSE tile.lut[pixels[k]])
           ELSE result[k]]

\* No loop is running.
NoSteps == [pending |-> {}, done |-> << >>]

\* ------------------------------------------------------------- state
VARIABLES
  pixels,      \* the caller's buffer
  width,       \* its width: Length(pixels) = width * height * channels
  height,      \* its height
  status,      \* "ready" before the call, then "returned" or "threw";
               \* SpecOrder: "running" while passes of the loop remain
  call,        \* the operation called and its arguments
  threw,       \* the message of the error thrown, "" when none
  result,      \* the buffer returned, << >> when none
  edges,       \* canny: what sobelWithGradient returned, << >> otherwise
  tiles,       \* clahe: the tiles visited, in order, << >> otherwise
  histogram,   \* getHistogram: the histogram returned, << >> otherwise
  pixels2,     \* SpecPair: the buffer of the second clahe call
  call2,       \* SpecPair: the second call
  result2,     \* SpecPair: the buffer the second call returned;
               \* SpecHistogram: the bins before clipHistogram
  tiles2,      \* SpecPair: the tiles the second call visited
  allocated,   \* TRUE when the call has allocated its output buffer
  first,       \* SpecTwice: how the first of two equal calls ended
  batch,       \* SpecBatch: the image array, the filters and the filter log
  steps        \* SpecOrder: the loop steps of the call still to run, and
               \* those already run, in the order they ran

vars == << pixels, width, height, status, call, threw, result, edges, tiles,
           histogram, pixels2, call2, result2, tiles2, allocated, first,
                  batch, steps >>

\* ------------------------------------------------------------ inputs
\* Colours <<R, G, B, A>>: black and white of the edge-detection tests, the
\* two colours of the histogram tests, and a half-transparent colour.
Black == << 0, 0, 0, 255 >>
White == << 255, 255, 255, 255 >>
Low == << 100, 120, 110, 255 >>
Varied == << 150, 140, 130, 255 >>
Glass == << 200, 60, 90, 128 >>
Palette == {Black, White, Glass}

\* A width x height buffer of colour a, with colour b in the rectangle of
\* the pixels with x >= sx and y >= sy.
PatternBuffer(w, h, a, b, sx, sy) ==
  [k \in 0 .. w * h * channels - 1 |->
     LET p == k \div channels
     IN IF (p % w) >= sx /\ (p \div w) >= sy
        THEN b[(k % channels) + 1] ELSE a[(k % channels) + 1]]

\* The 5x5 buffer of the edge-detection tests: black for x < 2, else white.
EdgeTestPixels == PatternBuffer(5, 5, Black, White, 2, 0)

\* The 8x8 buffer of the histogram tests: (150,140,130) on the even pixels,
\* (100,120,110) on the odd ones, alpha 255.
HistTestPixels ==
  [k \in 0 .. 8 * 8 * channels - 1 |->
     IF (k \div channels) % 2 = 0 THEN Varied[(k % channels) + 1]
     ELSE Low[(k % channels) + 1]]

\* The call record; the arguments an operation does not take keep the
\* defaults of the code.  contrast is in thousandths, gamma in tenths.
Call(op, buffer, w, h) ==
  [op |-> op, buffer |-> buffer, width |-> w, height |-> h,
   lowThreshold |-> 50, highThreshold |-> 150,
   clipLimit |-> Num(2), gridSize |-> Num(8), contrast |-> Num(0),
   gamma |-> Num(10), radius |-> Num(2), windowSize |-> 11,
   x |-> Num(0), y |-> Num(0), cropWidth |-> Num(0), cropHeight |-> Num(0),
   compressed |-> "pixels2", amount |-> Num(2)]

NoCall == Call("none", "pixels", Num(0), Num(0))

\* The buffer/width/height arguments tried: the caller's own buffer and
\* dimensions, a null buffer, and a width or height that is a string, zero
\* or negative.
DimArgs ==
  { << "pixels", Num(width), Num(height) >>,
    << "null", Num(width), Num(height) >>,
    << "pixels", Str, Num(height) >>,
    << "pixels", Num(width), Str >>,
    << "pixels", Num(0), Num(height) >>,
    << "pixels", Num(-1), Num(height) >> }

\* <<lowThreshold, highThreshold>>: the defaults, the pair of the tests,
\* low above high, equal thresholds, and the ends of the range.  The
\* thresholds are integers other than 0: the model compares the exact
\* magnitude, and only against 0 can the rounding error of the
\* floating-point sums decide the comparison.
ThresholdPairs == { << 50, 150 >>, << 30, 100 >>, << 150, 50 >>,
                    << 100, 100 >>, << 1, 255 >>, << 200, 250 >>,
                    << -1, 1 >> }
ClipLimits == {Num(2), Num(128), Str}
GridSizes == {Num(g) : g \in 1 .. MaxGrid} \cup {Str}
Contrasts == {Num(-1500), Num(-1000), Num(-500), Num(0), Num(500),
              Num(1000), Num(1500), Str}
\* <<buffer, gamma>>: gamma 0.5, 1 and 2, the invalid gammas of the tests
\* (0, -1, a string), and a null buffer.
GammaArgs == ({"pixels"} \X {Num(5), Num(10), Num(20), Num(0), Num(-10), Str})
               \cup {<< "null", Num(10) >>}

\* No first call has ended yet.
NoOutcome == [status |-> "none", threw |-> "", result |-> << >>,
              histogram |-> << >>]

\* No image array has been handed to BatchProcessor.
NoBatch == [images |-> << >>, filters |-> << >>, order |-> << >>]

InitCommon ==
  /\ status = "ready"
  /\ call = NoCall
  /\ threw = ""
  /\ result = << >>
  /\ edges = << >>
  /\ tiles = << >>
  /\ histogram = << >>
  /\ call2 = NoCall
  /\ result2 = << >>
  /\ tiles2 = << >>
  /\ allocated = FALSE
  /\ first = NoOutcome
  /\ batch = NoBatch
  /\ steps = NoSteps

Init ==
  /\ \/ \E w \in 1 .. MaxDim, h \in 1 .. MaxDim, a \in Palette, b \in Palette :
          \E sx \in 0 .. w - 1, sy \in 0 .. h - 1 :
            /\ width = w
            /\ height = h
            /\ pixels = PatternBuffer(w, h, a, b, sx, sy)
     \/ /\ width = 5
        /\ height = 5
        /\ pixels = EdgeTestPixels
     \/ /\ width = 8
        /\ height = 8
        /\ pixels = HistTestPixels
  /\ pixels2 = << >>
  /\ InitCommon

\* ----------------------------------------------------------- actions
\* The call ends with an error; alloc tells whether a buffer of
\* pixels.length had been allocated by then.
Fail(c, message, alloc) ==
  /\ status' = "threw"
  /\ call' = c
  /\ threw' = message
  /\ result' = << >>
  /\ edges' = << >>
  /\ tiles' = << >>
  /\ histogram' = << >>
  /\ allocated' = alloc
  /\ UNCHANGED << pixels, width, height, pixels2, call2, result2, tiles2,
                  first,
                  batch, steps >>

\* The throw of a validation, the first statement of every operation.
Throw(c, message) == Fail(c, message, FALSE)

\* A return that hands back the caller's own buffer, overwritten with the
\* output (variant used with C12 and C16).
ReturnInPlace(c, buffer) ==
  /\ status' = "returned"
  /\ call' = c
  /\ threw' = ""
  /\ result' = buffer
  /\ pixels' = buffer
  /\ allocated' = FALSE
  /\ UNCHANGED << width, height, pixels2, call2, result2, tiles2, first,
                  batch, steps >>

\* return result, where result = new Uint8ClampedArray(pixels.length) was
\* filled with `buffer`; the caller's buffer is only read.
Return(c, buffer) ==
  /\ status' = "returned"
  /\ call' = c
  /\ threw' = ""
  /\ result' = buffer
  /\ allocated' = TRUE
  /\ UNCHANGED << pixels, width, height, pixels2, call2, result2, tiles2,
                  first,
                  batch, steps >>

\* if (!pixels || typeof width !== 'number' || typeof height !== 'number')
InvalidDims(c) ==
  \/ c.buffer = "null"
  \/ typeof(c.width) # "number"
  \/ typeof(c.height) # "number"

Sobel ==
  /\ status = "ready"
  /\ \E a \in DimArgs :
       LET c == Call("sobel", a[1], a[2], a[3])
       IN IF InvalidDims(c)
          THEN Throw(c, "Invalid edge detection parameters")
          ELSE /\ Return(c, applyGradient(pixels, c.width.val, c.height.val,
                                          SobelGx, SobelGy))
               /\ UNCHANGED << edges, tiles, histogram >>

Prewitt ==
  /\ status = "ready"
  /\ \E a \in DimArgs :
       LET c == Call("prewitt", a[1], a[2], a[3])
       IN IF InvalidDims(c)
          THEN Throw(c, "Invalid edge detection parameters")
          ELSE /\ Return(c, applyGradient(pixels, c.width.val, c.height.val,
                                          PrewittGx, PrewittGy))
               /\ UNCHANGED << edges, tiles, histogram >>

Laplacian ==
  /\ status = "ready"
  /\ \E a \in DimArgs :
       LET c == Call("laplacian", a[1], a[2], a[3])
       IN IF InvalidDims(c)
          THEN Throw(c, "Invalid edge detection parameters")
          ELSE /\ Return(c, laplacianBody(pixels, c.width.val, c.height.val))
               /\ UNCHANGED << edges, tiles, histogram >>

\* The arguments of canny tried: every threshold pair on the caller's own
\* buffer and dimensions, and the default pair on every DimArgs.
CannyArgs ==
  ({<< "pixels", Num(width), Num(height) >>} \X ThresholdPairs) \cup
  (DimArgs \X {<< 50, 150 >>})

\* canny: new Float32Array(width * height) in sobelWithGradient throws a
\* RangeError for a negative length, after the blur has allocated its
\* result.
Canny ==
  /\ status = "ready"
  /\ \E ct \in CannyArgs :
       LET a == ct[1]
           low == ct[2][1]
           high == ct[2][2]
           c == [Call("canny", a[1], a[2], a[3]) EXCEPT
                   !.lowThreshold = low, !.highThreshold = high]
           w == c.width.val
           h == c.height.val
       IN IF InvalidDims(c)
          THEN Throw(c, "Invalid edge detection parameters")
          ELSE IF w * h < 0
          THEN Fail(c, "RangeError: Invalid typed array length", TRUE)
          ELSE LET blurred == Evaluated(gaussianBlur(pixels, w, h))
                   e == Evaluated(sobelWithGradient(blurred, w, h))
               IN /\ Return(c, cannyClassify(e, Length(pixels), low, high))
                  /\ edges' = e
                  /\ UNCHANGED << tiles, histogram >>

\* equalize: new Uint8ClampedArray(width * height) throws a RangeError for
\* a negative length.
Equalize ==
  /\ status = "ready"
  /\ \E a \in DimArgs :
       LET c == Call("equalize", a[1], a[2], a[3])
       IN IF InvalidDims(c)
          THEN Throw(c, "Invalid equalization parameters")
          ELSE IF c.width.val * c.height.val < 0
          THEN Throw(c, "RangeError: Invalid typed array length")
          ELSE /\ Return(c, equalizeBody(pixels, c.width.val, c.height.val))
               /\ UNCHANGED << edges, tiles, histogram >>

\* if (!pixels || typeof clipLimit !== 'number' || typeof gridSize !== 'number')
InvalidClahe(c) ==
  \/ c.buffer = "null"
  \/ typeof(c.clipLimit) # "number"
  \/ typeof(c.gridSize) # "number"

\* The buffer/clipLimit/gridSize arguments of clahe tried, with the
\* caller's own width and height.
ClaheArgs(grids) ==
  ({"pixels"} \X ClipLimits \X grids) \cup
  {<< "null", Num(2), Num(2) >>}

\* clahe on the caller's buffer, for one argument triple
\* <<buffer, clipLimit, gridSize>> and the caller's own width and height.
ClaheCall(a) ==
  LET c == [Call("clahe", a[1], Num(width), Num(height)) EXCEPT
              !.clipLimit = a[2], !.gridSize = a[3]]
  IN IF InvalidClahe(c)
     THEN Throw(c, "Invalid CLAHE parameters")
     ELSE LET ts == Evaluated(claheTiles(pixels, width, height,
                                         c.clipLimit.val, c.gridSize.val))
          IN /\ Return(c, applyTiles(pixels, width, height, ts))
             /\ tiles' = ts
             /\ UNCHANGED << edges, histogram >>

\* clahe(pixels, 'invalid', height): the validation does not look at width.
\* tileWidth = Math.ceil(width / gridSize) is NaN, so x1 and x2 are NaN in
\* every tile, no loop "for x = x1; x < x2" runs a single step, and the
\* zeroed result is returned as it was allocated.  No tile holds a pixel:
\* none is recorded.
ClaheNonNumericWidth ==
  LET c == Call("clahe", "pixels", Str, Num(height))
  IN IF InvalidClahe(c)
     THEN Throw(c, "Invalid CLAHE parameters")
     ELSE /\ Return(c, ZeroBuffer(Length(pixels)))
          /\ tiles' = << >>
          /\ UNCHANGED << edges, histogram >>

Clahe ==
  /\ status = "ready"
  /\ \/ \E a \in ClaheArgs(GridSizes) : ClaheCall(a)
     \/ ClaheNonNumericWidth

\* getHistogram returns the histogram, a new Uint32Array(256); it has no
\* pixel buffer to allocate.
GetHistogram ==
  /\ status = "ready"
  /\ \E a \in DimArgs :
       LET c == Call("getHistogram", a[1], a[2], a[3])
       IN IF InvalidDims(c)
          THEN Throw(c, "Invalid histogram parameters")
          ELSE /\ status' = "returned"
               /\ call' = c
               /\ threw' = ""
               /\ result' = << >>
               /\ histogram' = getHistogramBody(pixels, c.width.val,
                                                c.height.val)
               /\ allocated' = FALSE
               /\ UNCHANGED << pixels, width, height, edges, tiles,
                               pixels2, call2, result2, tiles2, first,
                  batch, steps >>

\* if (typeof contrast !== 'number' || contrast < -1 || contrast > 1)
InvalidContrast(c) ==
  \/ typeof(c.contrast) # "number"
  \/ c.contrast.val < -1000
  \/ c.contrast.val > 1000

SigmoidContrast ==
  /\ status = "ready"
  /\ \E k \in Contrasts :
       LET c == [Call("sigmoidContrast", "pixels", Num(width), Num(height))
                   EXCEPT !.contrast = k]
       IN IF InvalidContrast(c)
          THEN Throw(c, "Contrast must be between -1 and 1")
          ELSE /\ Return(c, sigmoidBody(pixels, c.contrast.val))
               /\ UNCHANGED << edges, tiles, histogram >>

\* A guard that lets gamma 0 through (gamma < 0 where the code has <= 0).
InvalidGammaNegativeOnly(c) ==
  \/ c.buffer = "null"
  \/ typeof(c.gamma) # "number"
  \/ c.gamma.val < 0

\* if (!pixels || typeof gamma !== 'number' || gamma <= 0)
InvalidGamma(c) ==
  \/ c.buffer = "null"
  \/ typeof(c.gamma) # "number"
  \/ c.gamma.val <= 0

GammaCorrection ==
  /\ status = "ready"
  /\ \E a \in GammaArgs :
       LET c == [Call("gammaCorrection", a[1], Num(width), Num(height))
                   EXCEPT !.gamma = a[2]]
       IN IF InvalidGamma(c)
          THEN Throw(c, "Invalid gamma value")
          ELSE /\ Return(c, gammaBody(pixels, c.gamma.val))
               /\ UNCHANGED << edges, tiles, histogram >>

Next ==
  \/ Sobel
  \/ Prewitt
  \/ Laplacian
  \/ Canny
  \/ Equalize
  \/ Clahe
  \/ GetHistogram
  \/ GammaCorrection
  \/ SigmoidContrast

Spec == Init /\ [][Next]_vars

\* ---------------------------------------------------------- SpecTiles
\* clahe alone, on larger buffers and grids: every width and height up to
\* MaxTileDim with every gridSize up to MaxTileGrid.
InitTiles ==
  /\ \E w \in 1 .. MaxTileDim, h \in 1 .. MaxTileDim :
       \E s \in {<< 0, 0 >>, << w \div 2, 0 >>, << w \div 2, h \div 2 >>} :
         /\ width = w
         /\ height = h
         /\ pixels = PatternBuffer(w, h, Black, Glass, s[1], s[2])
  /\ pixels2 = << >>
  /\ InitCommon

ClaheTiled ==
  /\ status = "ready"
  /\ \E a \in {"pixels"} \X {Num(2), Num(128)}
                \X {Num(g) : g \in 1 .. MaxTileGrid} : ClaheCall(a)

NextTiles ==
  \/ ClaheTiled
  \/ GetHistogram

SpecTiles == InitTiles /\ [][NextTiles]_vars

\* ----------------------------------------------------------- SpecPair
\* Two clahe calls side by side: on two buffers of the same size that
\* differ in at most one pixel, with the same arguments; or on the same
\* buffer with two grid sizes.
Repaint(buf, p, colour) ==
  [k \in DOMAIN buf |->
     IF k \div channels = p THEN colour[(k % channels) + 1] ELSE buf[k]]

PairPalette == {Black, Glass}

InitPair ==
  /\ \/ \E w \in 1 .. MaxPairDim, h \in 1 .. MaxPairDim :
          \E a \in PairPalette, b \in PairPalette,
             sx \in 0 .. w - 1, sy \in 0 .. h - 1 :
            /\ width = w
            /\ height = h
            /\ pixels = PatternBuffer(w, h, a, b, sx, sy)
            /\ \/ pixels2 = pixels
               \/ \E p \in 0 .. w * h - 1 : pixels2 = Repaint(pixels, p, Low)
     \/ /\ width = 8
        /\ height = 8
        /\ pixels = HistTestPixels
        /\ pixels2 = pixels
  /\ InitCommon

\* The grid sizes of the pair: those of the test on the buffer of the test.
PairGrids == IF pixels = HistTestPixels THEN {4, 16} ELSE 1 .. MaxGrid

ClahePair ==
  /\ status = "ready"
  /\ \E clip \in {2, 128}, g \in PairGrids, g2 \in PairGrids :
       /\ g = g2 \/ pixels2 = pixels
       /\ LET c == [Call("clahe", "pixels", Num(width), Num(height)) EXCEPT
                      !.clipLimit = Num(clip), !.gridSize = Num(g)]
              ts == Evaluated(claheTiles(pixels, width, height, clip, g))
              ts2 == Evaluated(claheTiles(pixels2, width, height, clip, g2))
          IN /\ status' = "returned"
             /\ call' = c
             /\ threw' = ""
             /\ result' = applyTiles(pixels, width, height, ts)
             /\ tiles' = ts
             /\ call2' = [c EXCEPT !.gridSize = Num(g2)]
             /\ result2' = applyTiles(pixels2, width, height, ts2)
             /\ tiles2' = ts2
             /\ allocated' = TRUE
             /\ UNCHANGED << pixels, width, height, pixels2, edges, histogram,
                             first,
                  batch, steps >>

NextPair == ClahePair

SpecPair == InitPair /\ [][NextPair]_vars

\* ---------------------------------------------------------- SpecTwice
\* Two calls on one caller: the same call made twice in a row, sobel or
\* prewitt on two buffers with the same channel sums, canny with two pairs
\* of thresholds.
\* The buffer with R and B exchanged at every pixel: the same R+G+B, another
\* luma wherever R # B.
SwapRB(buf) ==
  [k \in DOMAIN buf |->
     IF k % channels = 0 THEN buf[k + 2]
     ELSE IF k % channels = 2 THEN buf[k - 2]
     ELSE buf[k]]

InitTwice ==
  /\ \/ \E w \in 1 .. MaxTwiceDim, h \in 1 .. MaxTwiceDim :
          \E s \in {<< 0, 0 >>, << w \div 2, 0 >>, << w \div 2, h \div 2 >>},
             a \in {Black, Low} :
            /\ width = w
            /\ height = h
            /\ pixels = PatternBuffer(w, h, a, Glass, s[1], s[2])
            /\ pixels2 \in {pixels, SwapRB(pixels)}
     \/ /\ width = 5
        /\ height = 5
        /\ pixels = EdgeTestPixels
        /\ pixels2 = pixels
  /\ InitCommon

\* sobel or prewitt on the caller's buffer and on the second buffer.
GradientPair ==
  /\ status = "ready"
  /\ first = NoOutcome
  /\ \E op \in {"sobel", "prewitt"} :
       LET c == Call(op, "pixels", Num(width), Num(height))
           gx == IF op = "sobel" THEN SobelGx ELSE PrewittGx
           gy == IF op = "sobel" THEN SobelGy ELSE PrewittGy
       IN /\ status' = "returned"
          /\ call' = c
          /\ threw' = ""
          /\ result' = applyGradient(pixels, width, height, gx, gy)
          /\ call2' = c
          /\ result2' = applyGradient(pixels2, width, height, gx, gy)
          /\ allocated' = TRUE
          /\ UNCHANGED << pixels, width, height, pixels2, edges, tiles,
                          histogram, tiles2, first,
                  batch, steps >>

\* The threshold pairs of the two canny calls: those of the test
\* (src part_001, 'different thresholds') and a wide pair.
TwiceThresholds == { << 50, 150 >>, << 30, 100 >>, << 1, 255 >> }

\* canny on the caller's buffer with two pairs of thresholds.
CannyPair ==
  /\ status = "ready"
  /\ first = NoOutcome
  /\ pixels2 = pixels
  /\ \E t \in TwiceThresholds, t2 \in TwiceThresholds :
       LET c == [Call("canny", "pixels", Num(width), Num(height)) EXCEPT
                   !.lowThreshold = t[1], !.highThreshold = t[2]]
           c2 == [c EXCEPT !.lowThreshold = t2[1], !.highThreshold = t2[2]]
           blurred == Evaluated(gaussianBlur(pixels, width, height))
           e == Evaluated(sobelWithGradient(blurred, width, height))
       IN /\ status' = "returned"
          /\ call' = c
          /\ threw' = ""
          /\ result' = cannyClassify(e, Length(pixels), t[1], t[2])
          /\ edges' = e
          /\ call2' = c2
          /\ result2' = cannyClassify(e, Length(pixels), t2[1], t2[2])
          /\ allocated' = TRUE
          /\ UNCHANGED << pixels, width, height, pixels2, tiles, histogram,
                          tiles2, first,
                  batch, steps >>

\* A caller that calls one operation, keeps what it got, and calls the same
\* operation again with the same buffer object and the same arguments.  The
\* operations are static methods and the modules hold no variables
\* (src part_003, part_004), so the only thing a second call can see of the
\* first is the caller's buffer.
FirstCall ==
  /\ first = NoOutcome
  /\ call2 = NoCall
  /\ pixels2 = pixels
  /\ Next

\* The caller keeps the outcome of the first call and is ready to call again.
Rearm ==
  /\ status # "ready"
  /\ first = NoOutcome
  /\ call2 = NoCall
  /\ first' = [status |-> status, threw |-> threw, result |-> result,
               histogram |-> histogram]
  /\ call2' = call
  /\ status' = "ready"
  /\ call' = NoCall
  /\ threw' = ""
  /\ result' = << >>
  /\ edges' = << >>
  /\ tiles' = << >>
  /\ histogram' = << >>
  /\ allocated' = FALSE
  /\ UNCHANGED << pixels, width, height, pixels2, result2, tiles2, batch, steps >>

SecondCall ==
  /\ first # NoOutcome
  /\ call' = call2
  /\ Next

NextTwice ==
  \/ GradientPair
  \/ CannyPair
  \/ FirstCall
  \/ Rearm
  \/ SecondCall

SpecTwice == InitTwice /\ [][NextTwice]_vars

\* ------------------------------------------- BasicFilters: the calls
\* The 4x4 buffer of the BasicFilters tests: (100,150,200,255) everywhere.
BlurTestPixels ==
  [k \in 0 .. 4 * 4 * channels - 1 |-> << 100, 150, 200, 255 >>[(k % channels) + 1]]

\* <<buffer, radius>>: the default radius 2, the ends 1 and 50 of the
\* range, the invalid radii of the tests (0, 51, a string), a null buffer.
BlurArgs == ({"pixels"} \X {Num(1), Num(2), Num(50), Num(0), Num(51), Str})
              \cup {<< "null", Num(2) >>}

\* if (!pixels || typeof radius !== 'number' || radius < 1 || radius > 50)
InvalidBlur(c) ==
  \/ c.buffer = "null"
  \/ typeof(c.radius) # "number"
  \/ c.radius.val < 1
  \/ c.radius.val > 50

GaussianBlur ==
  /\ status = "ready"
  /\ \E a \in BlurArgs :
       LET c == [Call("gaussianBlur", a[1], Num(width), Num(height))
                   EXCEPT !.radius = a[2]]
       IN IF InvalidBlur(c)
          THEN Throw(c, "Invalid blur parameters")
          ELSE /\ Return(c, blurBody(pixels, width, height, c.radius.val))
               /\ UNCHANGED << edges, tiles, histogram >>

\* --------------------------------------------- QualityMetrics: the calls
\* The 8x8 buffers of the QualityMetrics tests.
QualityOriginal ==
  [k \in 0 .. 8 * 8 * channels - 1 |-> << 100, 150, 200, 255 >>[(k % channels) + 1]]
QualityCompressed ==
  [k \in 0 .. 8 * 8 * channels - 1 |-> << 95, 145, 205, 255 >>[(k % channels) + 1]]

\* <<original, compressed>>: the caller's two buffers, a null for either,
\* and a second buffer of another length (new Uint8ClampedArray(10)).
QualityArgs == { << "pixels", "pixels2" >>, << "null", "pixels2" >>,
                 << "pixels", "null" >>, << "pixels", "short" >> }

\* The default window and the smaller windows, of which 5 is the custom
\* window of the tests.
WindowSizes == {11, 5, 2, 1}

\* if (!original || !compressed || original.length !== compressed.length)
InvalidPixelData(c) ==
  \/ c.buffer = "null"
  \/ c.compressed = "null"
  \/ c.compressed = "short"

\* A call that returns a value and allocates no buffer.
ReturnValue(c, value) ==
  /\ status' = "returned"
  /\ call' = c
  /\ threw' = ""
  /\ result' = value
  /\ edges' = << >>
  /\ tiles' = << >>
  /\ histogram' = << >>
  /\ allocated' = FALSE
  /\ UNCHANGED << pixels, width, height, pixels2, call2, result2, tiles2,
                  first,
                  batch, steps >>

Ssim ==
  /\ status = "ready"
  /\ \E a \in QualityArgs, w \in WindowSizes :
       LET c == [Call("ssim", a[1], Num(width), Num(height)) EXCEPT
                   !.compressed = a[2], !.windowSize = w]
       IN IF InvalidPixelData(c)
          THEN Throw(c, "Invalid pixel data for SSIM calculation")
          ELSE ReturnValue(c, ssim(pixels, pixels2, width, height, w))

\* compare: the report, of which the model keeps psnr, ssim and mse; the
\* other entries are functions of one buffer each.
Compare ==
  /\ status = "ready"
  /\ \E a \in QualityArgs :
       LET c == [Call("compare", a[1], Num(width), Num(height)) EXCEPT
                   !.compressed = a[2]]
       IN IF InvalidPixelData(c)
          THEN Throw(c, "Invalid pixel data for comparison")
          ELSE ReturnValue(c, [psnr |-> psnr(pixels, pixels2),
                               ssim |-> ssim(pixels, pixels2, width, height,
                                             c.windowSize),
                               mse |-> mse(pixels, pixels2)])

\* ------------------------------------------------- Transform: the calls
\* The 4x4 buffer of the Transform tests: R = 50 x, G = 50 y, B = 100.
TransformTestPixels ==
  [k \in 0 .. 4 * 4 * channels - 1 |->
     LET p == k \div channels
     IN << (p % 4) * 50, (p \div 4) * 50, 100, 255 >>[(k % channels) + 1]]

\* <<cropWidth, cropHeight>>: regions of one and of four pixels, the whole
\* image, one column too many, an empty region, negative sizes.
CropSizes(w, h) ==
  { << 1, 1 >>, << 2, 2 >>, << 2, 1 >>, << w, h >>, << w + 1, h >>,
    << 0, 1 >>, << -1, 1 >>, << -1, -1 >> }

\* <<buffer, width, x, y, cropWidth, cropHeight>>: regions at x, y from -1
\* to 1 on the caller's buffer, and the invalid calls of the tests (a null
\* buffer, a width that is a string) and an x that is a string.
CropArgs(w, h) ==
  { << "pixels", Num(w), Num(x), Num(y), Num(sz[1]), Num(sz[2]) >> :
      x \in -1 .. 1, y \in -1 .. 1, sz \in CropSizes(w, h) }
    \cup { << "null", Num(w), Num(0), Num(0), Num(2), Num(2) >>,
           << "pixels", Str, Num(0), Num(0), Num(1), Num(1) >>,
           << "pixels", Str, Num(0), Num(0), Num(2), Num(2) >>,
           << "pixels", Num(w), Str, Num(0), Num(1), Num(1) >> }

\* if (!pixels || typeof x !== 'number' || typeof y !== 'number'
\*     || typeof cropWidth !== 'number' || typeof cropHeight !== 'number')
InvalidCrop(c) ==
  \/ c.buffer = "null"
  \/ typeof(c.x) # "number"
  \/ typeof(c.y) # "number"
  \/ typeof(c.cropWidth) # "number"
  \/ typeof(c.cropHeight) # "number"

\* if (x < 0 || y < 0 || x + cropWidth > width || y + cropHeight > height):
\* a comparison with a width or height that is not a number is false.
CropExceeds(c) ==
  \/ c.x.val < 0
  \/ c.y.val < 0
  \/ (typeof(c.width) = "number" /\ c.x.val + c.cropWidth.val > c.width.val)
  \/ (typeof(c.height) = "number"
        /\ c.y.val + c.cropHeight.val > c.height.val)

Crop ==
  /\ status = "ready"
  /\ \E a \in CropArgs(width, height) :
       LET c == [Call("crop", a[1], a[2], Num(height)) EXCEPT
                   !.x = a[3], !.y = a[4],
                   !.cropWidth = a[5], !.cropHeight = a[6]]
       IN IF InvalidCrop(c)
          THEN Throw(c, "Invalid crop parameters")
          ELSE IF CropExceeds(c)
          THEN Throw(c, "Crop region exceeds image boundaries")
          ELSE IF c.cropWidth.val * c.cropHeight.val < 0
          THEN Throw(c, "RangeError: Invalid typed array length")
          ELSE /\ Return(c, [pixels |-> cropBody(pixels, c.width, c.x.val,
                                                 c.y.val, c.cropWidth.val,
                                                 c.cropHeight.val),
                             width |-> c.cropWidth.val,
                             height |-> c.cropHeight.val])
               /\ UNCHANGED << edges, tiles, histogram >>

\* The buffers of SpecFilters: two colours, of which one half transparent,
\* split at a column and a row, and the buffers of the tests.
InitFilters ==
  /\ \/ \E w \in 1 .. MaxFilterDim, h \in 1 .. MaxFilterDim :
          \E a \in {Low, Glass}, b \in {Glass, White} :
            \E sx \in 0 .. w - 1, sy \in 0 .. h - 1 :
              /\ width = w
              /\ height = h
              /\ pixels = PatternBuffer(w, h, a, b, sx, sy)
              /\ pixels2 \in {pixels, PatternBuffer(w, h, b, a, sx, sy)}
     \/ /\ width = 4
        /\ height = 4
        /\ pixels \in {BlurTestPixels, TransformTestPixels}
        /\ pixels2 = pixels
     \/ /\ width = 8
        /\ height = 8
        /\ pixels = QualityOriginal
        /\ pixels2 \in {QualityOriginal, QualityCompressed}
  /\ InitCommon

NextFilters ==
  \/ GaussianBlur
  \/ Ssim
  \/ Compare
  \/ Crop

SpecFilters == InitFilters /\ [][NextFilters]_vars

\* ------------------------------------------------------------ claims
\* The call has returned from operation op.
Returned(op) == status = "returned" /\ call.op = op

\* The call was made on the caller's buffer with its own width and height.
OwnDims ==
  /\ call.buffer = "pixels"
  /\ call.width = Num(width)
  /\ call.height = Num(height)

\* The buffer `out` has the length of pixels and the alpha of every pixel.
AlphaKept(out) ==
  /\ DOMAIN out = DOMAIN pixels
  /\ \A k \in DOMAIN pixels : k % channels = 3 => out[k] = pixels[k]

\* The pixels (x, y) of the caller's buffer.
Coordinates == (0 .. width - 1) \X (0 .. height - 1)

\* ---------------------------------------------------------------- C1
\* C1 (as stated): sigmoidContrast with contrast 0 returns a buffer equal to
\* its input, byte for byte.  The code does not: see C1_SigmoidZeroSaturates.
C1_SigmoidZeroIdentity ==
  (Returned("sigmoidContrast") /\ call.contrast = Num(0)) => result = pixels

\* What the code does at contrast 0: value stays the raw byte and is then
\* multiplied by 255, so 0 stays 0, every other R, G, B byte becomes 255.
C1_SigmoidZeroSaturates ==
  (Returned("sigmoidContrast") /\ call.contrast = Num(0)) =>
    \A k \in DOMAIN pixels :
      result[k] = IF k % channels = 3 THEN pixels[k]
                  ELSE IF pixels[k] = 0 THEN 0 ELSE 255

\* ---------------------------------------------------------------- C2
\* C2 (as stated): sobel, prewitt and laplacian return a buffer with the
\* alpha of every input pixel, border pixels included.  The code leaves the
\* border pixels at alpha 0.
C2_EdgeAlphaPreserved ==
  (status = "returned" /\ call.op \in {"sobel", "prewitt", "laplacian"}
     /\ OwnDims) => AlphaKept(result)

\* What the code does: alpha is copied for interior pixels only, every byte
\* of a border pixel is 0.
C2_BorderPixelsZero ==
  (status = "returned" /\ call.op \in {"sobel", "prewitt", "laplacian"}
     /\ OwnDims) =>
    \A k \in DOMAIN pixels :
      IF Interior(k, width, height)
      THEN (k % channels = 3 => result[k] = pixels[k])
      ELSE result[k] = 0

\* ---------------------------------------------------------------- C3
\* C3: clahe and equalize return a buffer whose alpha equals the input
\* alpha at every pixel, for a buffer of length width*height*4, a positive
\* clipLimit and a gridSize >= 1; in clahe every pixel is written by exactly
\* one tile.
C3_HistAlphaPreserved ==
  /\ (Returned("equalize") /\ OwnDims) => AlphaKept(result)
  /\ (Returned("clahe") /\ OwnDims) =>
       /\ AlphaKept(result)
       /\ \A c \in Coordinates :
            Cardinality({t \in DOMAIN tiles : InTile(tiles[t], c[1], c[2])}) = 1

\* clahe has run with more than one tile on a buffer with two alphas; the
\* LUT changed some colour byte and both alphas came through.
C3_Witness ==
  /\ Returned("clahe")
  /\ call.gridSize.val >= 2
  /\ \E k \in DOMAIN pixels, m \in DOMAIN pixels :
       /\ k % channels = 3 /\ pixels[k] = 128 /\ result[k] = 128
       /\ m % channels = 3 /\ pixels[m] = 255 /\ result[m] = 255
  /\ \E k \in DOMAIN pixels : k % channels # 3 /\ result[k] # pixels[k]

C4_WitnessInverted ==
  /\ Returned("canny")
  /\ OwnDims
  /\ call.lowThreshold > call.highThreshold
  /\ \E p \in DOMAIN edges :
       /\ result[p * channels] = 255
       /\ Magnitude9Sq(edges[p])
            <= 9 * call.lowThreshold * call.lowThreshold

\* canny has returned a buffer with a strong pixel for thresholds in order.
C4_WitnessStrong ==
  /\ Returned("canny")
  /\ OwnDims
  /\ call.lowThreshold < call.highThreshold
  /\ \E a \in DOMAIN result : result[a] = 255 /\ a % channels = 0

\* ---------------------------------------------------------------- C5
\* The number of pixels (x, y) with x1 <= x < x2 and y1 <= y < y2.
TilePixels(tile) ==
  Max(0, tile.x2 - tile.x1) * Max(0, tile.y2 - tile.y1)

\* C5 (as stated): the bins of getHistogram(buf, w, h) sum to w*h and the
\* bins of getTileHistogram for a tile (x1,y1,x2,y2) sum to
\* (x2-x1)*(y2-y1).  The product is not the number of pixels of a tile of
\* clahe with x1 > x2 or y1 > y2, whose histogram is empty.
C5_HistogramSums ==
  /\ (Returned("getHistogram") /\ OwnDims) =>
       SumBins(histogram, 0, NumBins - 1) = width * height
  /\ Returned("clahe") =>
       \A t \in DOMAIN tiles :
         SumBins(tiles[t].histogram, 0, NumBins - 1)
           = (tiles[t].x2 - tiles[t].x1) * (tiles[t].y2 - tiles[t].y1)

\* C5 (amended): the bins of getHistogram(buf, w, h) sum to w*h and the
\* bins of getTileHistogram for a tile sum to the number of pixels in it:
\* (x2-x1)*(y2-y1) when x1 <= x2 and y1 <= y2, and 0 otherwise.
C5_HistogramCountsPixels ==
  /\ (Returned("getHistogram") /\ OwnDims) =>
       SumBins(histogram, 0, NumBins - 1) = width * height
  /\ Returned("clahe") =>
       \A t \in DOMAIN tiles :
         SumBins(tiles[t].histogram, 0, NumBins - 1) = TilePixels(tiles[t])

\* clahe has visited a tile of several pixels, a tile with x1 > x2 and a
\* tile with x1 = x2, each with the histogram of its pixels.
C5_Witness ==
  /\ Returned("clahe")
  /\ \E t \in DOMAIN tiles :
       /\ TilePixels(tiles[t]) >= 2
       /\ SumBins(tiles[t].histogram, 0, NumBins - 1) = TilePixels(tiles[t])
  /\ \E u \in DOMAIN tiles :
       /\ tiles[u].x1 > tiles[u].x2
       /\ tiles[u].y1 < tiles[u].y2
       /\ SumBins(tiles[u].histogram, 0, NumBins - 1) = 0
  /\ \E v \in DOMAIN tiles : tiles[v].x1 = tiles[v].x2

\* getHistogram has returned the histogram of a buffer of several pixels
\* and two colours.
C5_WitnessWhole ==
  /\ Returned("getHistogram")
  /\ OwnDims
  /\ width * height >= 4
  /\ \E i \in DOMAIN histogram, j \in DOMAIN histogram :
       i # j /\ histogram[i] > 0 /\ histogram[j] > 0

\* ---------------------------------------------------------------- C6
\* C6: the tile regions visited by clahe are pairwise disjoint and their
\* union is the whole buffer: every pixel (x, y) with 0 <= x < width and
\* 0 <= y < height is in exactly one tile, and no tile holds a pixel outside
\* the buffer, for width, height, gridSize >= 1.
C6_TilesPartition ==
  Returned("clahe") =>
    /\ \A c \in Coordinates :
         Cardinality({t \in DOMAIN tiles : InTile(tiles[t], c[1], c[2])}) = 1
    /\ \A t \in DOMAIN tiles, u \in DOMAIN tiles :
         t # u =>
           \A c \in Coordinates :
             ~(InTile(tiles[t], c[1], c[2]) /\ InTile(tiles[u], c[1], c[2]))
    /\ \A t \in DOMAIN tiles :
         (tiles[t].x1 < tiles[t].x2 /\ tiles[t].y1 < tiles[t].y2) =>
           /\ 0 <= tiles[t].x1 /\ tiles[t].x2 <= width
           /\ 0 <= tiles[t].y1 /\ tiles[t].y2 <= height

\* clahe has returned from a grid whose tiles do not divide the buffer
\* evenly: a full tile, a narrower last tile and a tile without pixels.
C6_Witness ==
  /\ Returned("clahe")
  /\ width = 5
  /\ call.gridSize = Num(4)
  /\ \E t \in DOMAIN tiles : tiles[t].x2 - tiles[t].x1 = 2
  /\ \E u \in DOMAIN tiles : tiles[u].x2 - tiles[u].x1 = 1
  /\ \E v \in DOMAIN tiles : TilePixels(tiles[v]) = 0

\* ---------------------------------------------------------------- C7
\* C7 (as stated): every tile region (x1,y1,x2,y2) that clahe processes
\* satisfies 0 <= x1 < x2 <= width and 0 <= y1 < y2 <= height, for every
\* width, height and gridSize.  It fails whenever gridSize tiles of
\* ceil(dim/gridSize) overshoot the dimension by a whole tile.
C7_TileBounds ==
  Returned("clahe") =>
    \A t \in DOMAIN tiles :
      /\ 0 <= tiles[t].x1 /\ tiles[t].x1 < tiles[t].x2
      /\ tiles[t].x2 <= width
      /\ 0 <= tiles[t].y1 /\ tiles[t].y1 < tiles[t].y2
      /\ tiles[t].y2 <= height

\* C7 (amended): every tile region that clahe processes satisfies
\* 0 <= x1, 0 < x2 <= width, 0 <= y1, 0 < y2 <= height; a tile that starts
\* inside the buffer (x1 < width and y1 < height) also satisfies x1 < x2 and
\* y1 < y2; a tile that starts at or beyond an edge (x1 >= width or
\* y1 >= height) has x2 = width <= x1 or y2 = height <= y1 and holds no
\* pixel.
C7_TileBoundsInside ==
  Returned("clahe") =>
    \A t \in DOMAIN tiles :
      LET tile == tiles[t]
      IN /\ 0 <= tile.x1 /\ 0 < tile.x2 /\ tile.x2 <= width
         /\ 0 <= tile.y1 /\ 0 < tile.y2 /\ tile.y2 <= height
         /\ (tile.x1 < width /\ tile.y1 < height)
              => (tile.x1 < tile.x2 /\ tile.y1 < tile.y2)
         /\ tile.x1 >= width => tile.x2 = width
         /\ tile.y1 >= height => tile.y2 = height
         /\ (tile.x1 >= width \/ tile.y1 >= height) => TilePixels(tile) = 0

\* clahe has run on width 5 with gridSize 4: tiles with x1 < x2, and the
\* last column of tiles with x1 = 6 > x2 = 5.
C7_Witness ==
  /\ Returned("clahe")
  /\ width = 5
  /\ call.gridSize = Num(4)
  /\ \E t \in DOMAIN tiles : tiles[t].x1 = 6 /\ tiles[t].x2 = 5
  /\ \E u \in DOMAIN tiles :
       /\ tiles[u].x1 < tiles[u].x2
       /\ tiles[u].y1 < tiles[u].y2

\* clahe has run with a gridSize larger than both dimensions.
C7_WitnessLargeGrid ==
  /\ Returned("clahe")
  /\ call.gridSize.val > width
  /\ call.gridSize.val > height
  /\ \E t \in DOMAIN tiles : tiles[t].x1 >= width /\ tiles[t].y1 >= height

\* ---------------------------------------------------------------- C8
\* The two buffers of the pair hold the same bytes at every pixel of tile.
SameInTile(tile) ==
  \A c \in Coordinates :
    InTile(tile, c[1], c[2]) =>
      \A ch \in 0 .. channels - 1 :
        pixels[(c[2] * width + c[1]) * channels + ch]
          = pixels2[(c[2] * width + c[1]) * channels + ch]

\* C8: CLAHE tile independence.  For two buffers of the same dimensions
\* processed with the same clipLimit and gridSize, every tile in which the
\* two buffers hold the same pixels has the same LUT in both runs and the
\* same output bytes at its pixels, whatever the buffers hold in the other
\* tiles.
C8_TileIndependence ==
  (Returned("clahe") /\ call2 = call) =>
    \A t \in DOMAIN tiles :
      SameInTile(tiles[t]) =>
        /\ tiles2[t].lut = tiles[t].lut
        /\ \A c \in Coordinates :
             InTile(tiles[t], c[1], c[2]) =>
               \A ch \in 0 .. channels - 1 :
                 result[(c[2] * width + c[1]) * channels + ch]
                   = result2[(c[2] * width + c[1]) * channels + ch]

\* The two runs differ in one tile, whose LUT and output changed, while
\* another tile with pixels kept its LUT, which is not the all-zero one.
C8_Witness ==
  /\ Returned("clahe")
  /\ call2 = call
  /\ pixels2 # pixels
  /\ result2 # result
  /\ \E t \in DOMAIN tiles, u \in DOMAIN tiles :
       /\ ~SameInTile(tiles[t])
       /\ tiles2[t].lut # tiles[t].lut
       /\ t # u
       /\ TilePixels(tiles[u]) > 0
       /\ SameInTile(tiles[u])
       /\ tiles2[u].lut = tiles[u].lut
       /\ \E i \in 0 .. NumBins - 1 : tiles[u].lut[i] # 0

\* ---------------------------------------------------------------- C9
\* C9 (as stated): on the non-uniform 8x8 buffer of the tests,
\* clahe(buf, 8, 8, 2.0, 4) and clahe(buf, 8, 8, 2.0, 16) differ in at least
\* one byte.  In the code both outputs are equal: every tile has fewer than
\* 64 pixels, so its clip limit is 0 and its LUT is all zero.
C9_GridSizesDiffer ==
  (/\ Returned("clahe")
   /\ pixels = HistTestPixels
   /\ pixels2 = pixels
   /\ call.clipLimit = Num(2)
   /\ call2.clipLimit = Num(2)
   /\ call.gridSize = Num(4)
   /\ call2.gridSize = Num(16))
    => result2 # result

\* What the code returns for both grid sizes on that buffer: R, G and B are
\* 0 and alpha is 255 at every pixel.
C9_BothAllZero ==
  (/\ Returned("clahe")
   /\ pixels = HistTestPixels
   /\ pixels2 = pixels
   /\ call.clipLimit = Num(2)
   /\ call2.clipLimit = Num(2))
    => /\ result2 = result
       /\ \A k \in DOMAIN result :
            result[k] = IF k % channels = 3 THEN 255 ELSE 0

\* --------------------------------------------------------------- C10
\* C10 (as stated): sobel, prewitt, laplacian and canny throw the
\* invalid-input error when the buffer is null or a dimension is not a
\* number, is zero or is negative.  The code checks only the buffer and the
\* type of the dimensions: with width 0 or -1 sobel, prewitt and laplacian
\* return a buffer, and so does canny with width 0.
C10_EdgeRejectsBadDims ==
  (/\ status # "ready"
   /\ call.op \in {"sobel", "prewitt", "laplacian", "canny"}
   /\ \/ call.buffer = "null"
      \/ typeof(call.width) # "number"
      \/ typeof(call.height) # "number"
      \/ call.width.val <= 0
      \/ call.height.val <= 0)
    => (status = "threw" /\ threw = "Invalid edge detection parameters")

\* What the code does for these arguments: the invalid-input error for a
\* null buffer and for a dimension that is not a number; for a width of 0 or
\* -1 a returned buffer of zeros, except canny with width -1, which fails
\* with a RangeError.
C10_EdgeChecksTypesOnly ==
  (status # "ready"
     /\ call.op \in {"sobel", "prewitt", "laplacian", "canny"}) =>
    IF \/ call.buffer = "null"
       \/ typeof(call.width) # "number"
       \/ typeof(call.height) # "number"
    THEN status = "threw" /\ threw = "Invalid edge detection parameters"
    ELSE IF call.op = "canny" /\ call.width.val < 0
    THEN status = "threw" /\ threw = "RangeError: Invalid typed array length"
    ELSE /\ status = "returned"
         /\ call.width.val <= 0 => result = ZeroBuffer(Length(pixels))

\* ------------------------------------ the private histogram helpers
\* A histogram with every bin at fill and two spikes on top.
SpikedHistogram(fill, b1, c1, b2, c2) ==
  [i \in 0 .. NumBins - 1 |->
     fill + (IF i = b1 THEN c1 ELSE 0) + (IF i = b2 THEN c2 ELSE 0)]

\* The histograms of SpecHistogram: empty, sparse, and the flat histograms
\* of the tests (fill 10 and 100), with spikes of 0 to MaxSpike * 64 counts
\* in the first, a middle and the last bin.
InitHistogram ==
  /\ \E fill \in {0, 1, 10, 100}, b1 \in {0, 128}, b2 \in {129, 255} :
       \E c1 \in {64 * n : n \in 0 .. MaxSpike},
          c2 \in {64 * n : n \in 0 .. MaxSpike} :
         histogram = SpikedHistogram(fill, b1, c1, b2, c2)
  /\ pixels = << >>
  /\ pixels2 = << >>
  /\ width = 0
  /\ height = 0
  /\ status = "ready"
  /\ call = NoCall
  /\ threw = ""
  /\ result = << >>
  /\ edges = << >>
  /\ tiles = << >>
  /\ call2 = NoCall
  /\ result2 = << >>
  /\ tiles2 = << >>
  /\ allocated = FALSE
  /\ first = NoOutcome
  /\ batch = NoBatch
  /\ steps = NoSteps

\* clipHistogram(histogram, clipLimit): the array is clipped in place and
\* nothing is returned.
ClipHistogram ==
  /\ status = "ready"
  /\ \E clipLimit \in {1, 2, 4, 128} :
       /\ status' = "returned"
       /\ call' = [Call("clipHistogram", "histogram", Num(0), Num(0))
                     EXCEPT !.clipLimit = Num(clipLimit)]
       /\ threw' = ""
       /\ result' = << >>
       /\ result2' = histogram
       /\ histogram' = clipHistogram(histogram, clipLimit)
       /\ UNCHANGED << pixels, width, height, edges, tiles, pixels2, call2,
                       tiles2, allocated, first, batch, steps >>

\* calculateLUT(histogram), on a histogram as it was made or as
\* clipHistogram left it.
CalculateLUT ==
  /\ status = "ready" \/ (status = "returned" /\ call.op = "clipHistogram")
  /\ status' = "returned"
  /\ call' = [call EXCEPT !.op = "calculateLUT", !.buffer = "histogram"]
  /\ threw' = ""
  /\ result' = calculateLUT(histogram)
  /\ allocated' = TRUE
  /\ UNCHANGED << pixels, width, height, edges, tiles, histogram, pixels2,
                  call2, result2, tiles2, first, batch, steps >>

NextHistogram ==
  \/ ClipHistogram
  \/ CalculateLUT

SpecHistogram == InitHistogram /\ [][NextHistogram]_vars

\* ------------------------------------------------ the two border styles
\* <<amount>> of sharpen, in halves: 0.5, the default 1.0, 2.0, a string.
SharpenAmounts == {Num(1), Num(2), Num(4), Str}

\* if (!pixels || typeof amount !== 'number')
InvalidSharpen(c) == c.buffer = "null" \/ typeof(c.amount) # "number"

\* BasicFilters.sharpen; the amount of the call is in halves.
Sharpen ==
  /\ status = "ready"
  /\ \E a \in DimArgs, amount \in SharpenAmounts :
       LET c == [Call("sharpen", a[1], a[2], a[3]) EXCEPT !.amount = amount]
       IN IF InvalidSharpen(c)
          THEN Throw(c, "Invalid sharpen parameters")
          ELSE /\ Return(c, applyKernel(pixels, c.width.val, c.height.val,
                                        SharpenKernel, amount.val, 0))
               /\ UNCHANGED << edges, tiles, histogram >>

\* BasicFilters.emboss: if (!pixels), then the kernel with amount 1.0 and
\* offset 128.
Emboss ==
  /\ status = "ready"
  /\ \E a \in DimArgs :
       LET c == Call("emboss", a[1], a[2], a[3])
       IN IF c.buffer = "null"
          THEN Throw(c, "Invalid pixels")
          ELSE /\ Return(c, applyKernel(pixels, c.width.val, c.height.val,
                                        EmbossKernel, 2, 128))
               /\ UNCHANGED << edges, tiles, histogram >>

\* EdgeDetection.gaussianBlur, the first stage of canny, on the caller's
\* buffer.
SmoothingStage ==
  /\ status = "ready"
  /\ LET c == Call("EdgeDetection.gaussianBlur", "pixels", Num(width),
                   Num(height))
     IN /\ Return(c, gaussianBlur(pixels, width, height))
        /\ UNCHANGED << edges, tiles, histogram >>

NextBorders ==
  \/ Sobel
  \/ Prewitt
  \/ Laplacian
  \/ Sharpen
  \/ Emboss
  \/ SmoothingStage

SpecBorders == Init /\ [][NextBorders]_vars

\* ------------------------------------------- BatchProcessor: the calls
\* The images of an array: the three names and formats of the tests, one
\* pixel each, the second with null data.
BatchImages ==
  { Image("image1.jpg", "jpeg", Data(PatternBuffer(1, 1, Low, Low, 0, 0)), 1, 1),
    Image("image2.jpg", "jpeg", NullData, 1, 1),
    Image("image3.png", "png", Data(PatternBuffer(1, 1, Glass, Glass, 0, 0)), 1, 1) }

\* The arrays of up to MaxBatch images.
ImageArrays ==
  UNION { [1 .. n -> BatchImages] : n \in 0 .. MaxBatch }

InitBatch ==
  /\ batch \in { [images |-> a, filters |-> << >>, order |-> << >>] :
                   a \in ImageArrays }
  /\ pixels = << >>
  /\ pixels2 = << >>
  /\ width = 0
  /\ height = 0
  /\ status = "ready"
  /\ call = NoCall
  /\ threw = ""
  /\ result = << >>
  /\ edges = << >>
  /\ tiles = << >>
  /\ histogram = << >>
  /\ call2 = NoCall
  /\ result2 = << >>
  /\ tiles2 = << >>
  /\ allocated = FALSE
  /\ first = NoOutcome
  /\ steps = NoSteps

\* How a call of BatchProcessor ends: the call, the filters it was given,
\* the log of the filter invocations, and the array returned or the error.
BatchEnds(c, filters, order, message, value) ==
  /\ status' = (IF message = "" THEN "returned" ELSE "threw")
  /\ call' = c
  /\ threw' = message
  /\ result' = value
  /\ batch' = [batch EXCEPT !.filters = filters, !.order = order]
  /\ UNCHANGED << pixels, width, height, edges, tiles, histogram, pixels2,
                  call2, result2, tiles2, allocated, first, steps >>

\* <<imageArray, filterFn>>: the caller's array with each filter function,
\* and the invalid calls of the tests (null, a string for either argument).
BatchArgs ==
  ({"array"} \X {"identity", "brightness", "error", "sobel", "notFunction"})
    \cup { << "null", "identity" >>, << "string", "identity" >> }

\* if (!Array.isArray(imageArray) || typeof filterFn !== 'function')
Batch ==
  /\ status = "ready"
  /\ \E a \in BatchArgs :
       LET c == Call("batch", a[1], Num(0), Num(0))
       IN IF a[1] # "array" \/ a[2] = "notFunction"
          THEN BatchEnds(c, << a[2] >>, << >>, "Invalid batch parameters",
                         << >>)
          ELSE BatchEnds(c, << a[2] >>,
                         [k \in 1 .. Len(batch.images) |-> 1], "",
                         batchMap(batch.images, a[2]))

\* The lists of up to two pipeline filters, and null for the list.
FilterLists ==
  UNION { [1 .. n -> {"pass", "brighten", "error", "notFunction"}] :
            n \in 0 .. 2 }

PipelineArgs ==
  ({"array"} \X FilterLists)
    \cup { << "null", << >> >>, << "array", << "notArray" >> >> }

\* if (!Array.isArray(imageArray) || !Array.isArray(filters))
Pipeline ==
  /\ status = "ready"
  /\ \E a \in PipelineArgs :
       LET c == Call("pipeline", a[1], Num(0), Num(0))
       IN IF a[1] # "array" \/ a[2] = << "notArray" >>
          THEN BatchEnds(c, a[2], << >>, "Invalid pipeline parameters",
                         << >>)
          ELSE LET run == pipelineLoop(batch.images, a[2], 1, << >>)
               IN BatchEnds(c, a[2], run.order, run.threw, run.result)

NextBatch ==
  \/ Batch
  \/ Pipeline

SpecBatch == InitBatch /\ [][NextBatch]_vars

\* ----------------------------------------------------------- SpecGray
\* equalize on uniform buffers: every pixel (v, v, v, a), for every gray
\* value v and the alpha values of the tests and of a half-transparent
\* pixel.
InitGray ==
  /\ \E w \in 1 .. MaxGrayDim, h \in 1 .. MaxGrayDim,
        v \in 0 .. maxPixelValue, a \in {128, 255} :
       /\ width = w
       /\ height = h
       /\ pixels = PatternBuffer(w, h, << v, v, v, a >>, << v, v, v, a >>,
                                 0, 0)
  /\ pixels2 = << >>
  /\ InitCommon

NextGray == Equalize

SpecGray == InitGray /\ [][NextGray]_vars

\* ---------------------------------------------------------- SpecOrder
\* The loops of sobel, prewitt, laplacian and clahe run one pass at a
\* time, the passes taken in any order: a pass per interior pixel for the
\* edge detectors, a pass per tile for clahe.
OrderColours == {<< Black, White >>, << Black, Glass >>, << Glass, White >>}

InitOrder ==
  /\ \E w \in 3 .. MaxOrderWidth, h \in {3, 4}, c \in OrderColours :
       \E s \in {<< w \div 2, 0 >>, << w \div 2, h \div 2 >>} :
         /\ width = w
         /\ height = h
         /\ pixels = PatternBuffer(w, h, c[1], c[2], s[1], s[2])
  /\ pixels2 = << >>
  /\ InitCommon

\* The call passed its validation and allocated result; no pass has run.
LoopBegins(c, passes) ==
  /\ status' = "running"
  /\ call' = c
  /\ threw' = ""
  /\ result' = ZeroBuffer(Length(pixels))
  /\ allocated' = TRUE
  /\ steps' = [pending |-> passes, done |-> << >>]
  /\ UNCHANGED << pixels, width, height, edges, tiles, histogram, pixels2,
                  call2, result2, tiles2, first, batch >>

\* One pass has run and left buffer in result.
PassRuns(s, buffer) ==
  /\ result' = buffer
  /\ steps' = [pending |-> steps.pending \ {s},
               done |-> Append(steps.done, s)]
  /\ UNCHANGED << pixels, width, height, status, call, threw, edges, tiles,
                  histogram, pixels2, call2, result2, tiles2, allocated,
                  first, batch >>

\* for i in 1..height-2, for j in 1..width-2
EdgeBegins ==
  /\ status = "ready"
  /\ \E op \in {"sobel", "prewitt", "laplacian"} :
       LoopBegins(Call(op, "pixels", Num(width), Num(height)),
                  (1 .. height - 2) \X (1 .. width - 2))

EdgePass ==
  /\ status = "running"
  /\ call.op \in {"sobel", "prewitt", "laplacian"}
  /\ \E s \in steps.pending :
       PassRuns(s,
         CASE call.op = "sobel" ->
                gradientStep(pixels, result, width, s[1], s[2],
                             SobelGx, SobelGy)
           [] call.op = "prewitt" ->
                gradientStep(pixels, result, width, s[1], s[2],
                             PrewittGx, PrewittGy)
           [] call.op = "laplacian" ->
                laplacianStep(pixels, result, width, s[1], s[2]))

\* for tileY in 0..gridSize-1, for tileX in 0..gridSize-1, gridSize 2
ClaheBegins ==
  /\ status = "ready"
  /\ \E clip \in {2, 128} :
       LoopBegins([Call("clahe", "pixels", Num(width), Num(height)) EXCEPT
                     !.clipLimit = Num(clip), !.gridSize = Num(2)],
                  (0 .. 1) \X (0 .. 1))

ClahePass ==
  /\ status = "running"
  /\ call.op = "clahe"
  /\ \E s \in steps.pending :
       PassRuns(s, claheStep(pixels, result, width, height,
                             call.clipLimit.val, call.gridSize.val,
                             s[2], s[1]))

\* return result
LoopReturns ==
  /\ status = "running"
  /\ steps.pending = {}
  /\ status' = "returned"
  /\ UNCHANGED << pixels, width, height, call, threw, result, edges, tiles,
                  histogram, pixels2, call2, result2, tiles2, allocated,
                  first, batch, steps >>

NextOrder ==
  \/ EdgeBegins
  \/ EdgePass
  \/ ClaheBegins
  \/ ClahePass
  \/ LoopReturns

SpecOrder == InitOrder /\ [][NextOrder]_vars

\* --------------------------------------------------------------- C11
\* C11 (as stated): clahe throws the invalid-input error when the buffer is
\* null, when width is not a number, when clipLimit is not a number or when
\* gridSize is not a number.  The code checks the buffer, clipLimit and
\* gridSize only: with a width that is not a number it returns a buffer.
C11_ClaheRejectsBadArgs ==
  (/\ status # "ready"
   /\ call.op = "clahe"
   /\ \/ call.buffer = "null"
      \/ typeof(call.width) # "number"
      \/ typeof(call.clipLimit) # "number"
      \/ typeof(call.gridSize) # "number")
    => (status = "threw" /\ threw = "Invalid CLAHE parameters")

\* What the code does: the invalid-input error exactly for a null buffer, a
\* clipLimit or a gridSize that is not a number, with no tile visited; for
\* a width that is not a number a returned buffer of zeros.
C11_ClaheChecksThree ==
  (status # "ready" /\ call.op = "clahe") =>
    IF \/ call.buffer = "null"
       \/ typeof(call.clipLimit) # "number"
       \/ typeof(call.gridSize) # "number"
    THEN status = "threw" /\ threw = "Invalid CLAHE parameters"
                          /\ tiles = << >> /\ result = << >>
    ELSE /\ status = "returned"
         /\ typeof(call.width) # "number"
              => result = ZeroBuffer(Length(pixels))

\* --------------------------------------------------------------- C12
\* The operations of the core that return a pixel buffer.
CoreOps == {"sobel", "prewitt", "laplacian", "canny", "clahe", "equalize",
            "gammaCorrection", "sigmoidContrast"}

\* C12: no operation of the core mutates its input buffer.  Every step
\* (a call that returns or a call that throws) leaves the caller's buffer
\* byte for byte what it was, and a call that returns hands back a buffer
\* it allocated itself, of the length of the input.
C12_InputNotMutated ==
  [][/\ pixels' = pixels
     /\ (status' = "returned" /\ call'.op \in CoreOps) =>
          /\ allocated'
          /\ DOMAIN result' = DOMAIN pixels]_vars

\* A call of the core has returned a buffer that differs from its input,
\* which is still what the caller built.
C12_Witness ==
  /\ status = "returned"
  /\ call.op \in CoreOps
  /\ pixels = EdgeTestPixels
  /\ result # pixels
  /\ DOMAIN result = DOMAIN pixels

\* A call of the core has thrown and the input is what the caller built.
C12_WitnessFailed ==
  /\ status = "threw"
  /\ call.op \in CoreOps
  /\ pixels = HistTestPixels

\* --------------------------------------------------------------- C13
\* Math.round(0.299 R + 0.587 G + 0.114 B) differs between the two buffers
\* at some pixel inside the kernel of an interior pixel.
LumaDiffers ==
  /\ width >= 3
  /\ height >= 3
  /\ \E p \in 0 .. width * height - 1 :
       LumaBin(pixels[p * channels], pixels[p * channels + 1],
               pixels[p * channels + 2])
         # LumaBin(pixels2[p * channels], pixels2[p * channels + 1],
                   pixels2[p * channels + 2])

\* The two buffers have the same R+G+B and the same alpha at every pixel.
SameChannelSums ==
  \A p \in 0 .. width * height - 1 :
    /\ pixels[p * channels] + pixels[p * channels + 1]
         + pixels[p * channels + 2]
         = pixels2[p * channels] + pixels2[p * channels + 1]
             + pixels2[p * channels + 2]
    /\ pixels[p * channels + 3] = pixels2[p * channels + 3]

\* C13 (as stated): sobel and prewitt take the luma-weighted gray value
\* 0.299R + 0.587G + 0.114B of each neighbour, so two buffers with equal
\* channel averages and different luma give different outputs.  The code
\* takes (R+G+B)/3: such buffers give the same output.
C13_LumaDecidesGradient ==
  (/\ status = "returned"
   /\ call.op \in {"sobel", "prewitt"}
   /\ call2 = call
   /\ first = NoOutcome
   /\ SameChannelSums
   /\ LumaDiffers) => result2 # result

\* C13 (amended): sobel and prewitt compute Gx and Gy from the simple
\* average (R+G+B)/3 of each sampled neighbour, not from the luma: two
\* buffers with the same R+G+B and the same alpha at every pixel give the
\* same output, whatever their luma.
C13_AverageDecidesGradient ==
  (/\ status = "returned"
   /\ call.op \in {"sobel", "prewitt"}
   /\ call2 = call
   /\ first = NoOutcome
   /\ SameChannelSums) => result2 = result

\* sobel or prewitt has returned the same output, with an edge in it, for
\* two buffers of equal channel sums whose luma differ.
C13_Witness ==
  /\ status = "returned"
  /\ call.op \in {"sobel", "prewitt"}
  /\ call2 = call
  /\ first = NoOutcome
  /\ pixels2 # pixels
  /\ SameChannelSums
  /\ LumaDiffers
  /\ result2 = result
  /\ \E k \in DOMAIN result : k % channels = 0 /\ result[k] > 0

\* --------------------------------------------------------------- C14
\* 9 * m * m for the magnitude m that sobel or prewitt computes at pixel p.
GradientMagnitude9Sq(p) ==
  LET gx == IF call.op = "sobel" THEN SobelGx ELSE PrewittGx
      gy == IF call.op = "sobel" THEN SobelGy ELSE PrewittGy
      sumGx == KernelSum3(pixels, width, p \div width, p % width, gx, 0)
      sumGy == KernelSum3(pixels, width, p \div width, p % width, gy, 0)
  IN sumGx * sumGx + sumGy * sumGy

\* The R, G, B bytes that sobel and prewitt write are the magnitude clamped
\* to [0,255]: 255 for a magnitude of 254.5 or more, the nearest integer
\* otherwise.
GradientBytesClamped ==
  (status = "returned" /\ call.op \in {"sobel", "prewitt"} /\ OwnDims) =>
    \A k \in DOMAIN result :
      /\ result[k] \in 0 .. 255
      /\ (Interior(k, width, height) /\ k % channels # 3) =>
           LET s9 == GradientMagnitude9Sq(k \div channels)
               b == result[k]
           IN /\ b < 255 => 4 * s9 < 9 * (2 * b + 1) * (2 * b + 1)
              /\ b > 0 => 4 * s9 > 9 * (2 * b - 1) * (2 * b - 1)

\* C14 (as stated): every gradient magnitude is non-negative and clamped to
\* [0,255], both the value written to R, G, B by sobel and prewitt and every
\* entry of the magnitude array of sobelWithGradient that canny compares
\* with its thresholds (array length width*height).  The entries of the
\* array are not clamped.
C14_MagnitudesClamped ==
  /\ GradientBytesClamped
  /\ (Returned("canny") /\ OwnDims) =>
       /\ DOMAIN edges = 0 .. width * height - 1
       /\ \A p \in DOMAIN edges :
            /\ Magnitude9Sq(edges[p]) >= 0
            /\ Magnitude9Sq(edges[p]) <= 9 * 255 * 255

\* C14 (amended): the value written to R, G, B by sobel and prewitt is the
\* magnitude clamped to [0,255]; the magnitude array of sobelWithGradient
\* has width*height entries, each non-negative and not clamped: an entry is
\* sqrt(Gx^2 + Gy^2) itself, at most 1020 * sqrt(2), and can exceed 255.
C14_OnlyBytesClamped ==
  /\ GradientBytesClamped
  /\ (Returned("canny") /\ OwnDims) =>
       /\ DOMAIN edges = 0 .. width * height - 1
       /\ \A p \in DOMAIN edges :
            /\ Magnitude9Sq(edges[p]) >= 0
            /\ Magnitude9Sq(edges[p]) <= 9 * 2 * 1020 * 1020

\* canny has compared a magnitude above 255 (680 on the 5x5 test buffer)
\* with its thresholds.
C14_Witness ==
  /\ Returned("canny")
  /\ OwnDims
  /\ pixels = EdgeTestPixels
  /\ \E p \in DOMAIN edges : Magnitude9Sq(edges[p]) = 9 * 680 * 680

\* sobel has written 255 for a magnitude above 255 and a smaller byte for a
\* smaller magnitude.
C14_WitnessClamped ==
  /\ Returned("sobel")
  /\ OwnDims
  /\ \E k \in DOMAIN result :
       /\ Interior(k, width, height)
       /\ k % channels = 0
       /\ result[k] = 255
       /\ GradientMagnitude9Sq(k \div channels) > 9 * 255 * 255

\* --------------------------------------------------------------- C15
\* C15 (as stated): on the 5x5 buffer that is black for x < 2 and white for
\* x >= 2, canny with thresholds (50,150) and canny with thresholds (30,100)
\* return outputs that differ in at least one byte.  In the code the two
\* outputs are equal.
C15_ThresholdsDiffer ==
  (/\ status = "returned"
   /\ call.op = "canny"
   /\ call2.op = "canny"
   /\ first = NoOutcome
   /\ pixels = EdgeTestPixels
   /\ call.lowThreshold = 50 /\ call.highThreshold = 150
   /\ call2.lowThreshold = 30 /\ call2.highThreshold = 100)
    => result2 # result

\* What the code returns on that buffer: the magnitudes after the blur are
\* 0 on the border and 680, 680, 340 in the interior columns, all above
\* both high thresholds, so both outputs have the nine interior pixels
\* (255,255,255,255) and the border (0,0,0,0).
C15_BothAllStrong ==
  (/\ status = "returned"
   /\ call.op = "canny"
   /\ call2.op = "canny"
   /\ first = NoOutcome
   /\ pixels = EdgeTestPixels
   /\ call.highThreshold <= 150
   /\ call2.highThreshold <= 150)
    => /\ result2 = result
       /\ \A k \in DOMAIN result :
            result[k] = IF Interior(k, 5, 5) THEN 255 ELSE 0
       /\ \A p \in DOMAIN edges :
            Magnitude9Sq(edges[p]) \in {0, 9 * 680 * 680, 9 * 340 * 340}

\* --------------------------------------------------------------- C16
\* C16: calling any operation (sobel, prewitt, laplacian, canny, equalize,
\* clahe, gammaCorrection, sigmoidContrast, and getHistogram) twice with the
\* same buffer and the same arguments gives the same outcome both times:
\* the same bytes, or the same error; nothing of the first call is seen by
\* the second.
SecondDone == first # NoOutcome /\ status # "ready"

C16_WitnessThrew ==
  /\ SecondDone
  /\ status = "threw"
  /\ threw = first.threw

\* --------------------------------------------------------------- C17
\* C17: gammaCorrection throws 'Invalid gamma value' for gamma <= 0 and for
\* a gamma that is not a number; sigmoidContrast throws 'Contrast must be
\* between -1 and 1' for a contrast below -1, above 1, or not a number; in
\* both the throw comes before the output buffer is allocated.
BadGamma(c) == typeof(c.gamma) # "number" \/ c.gamma.val <= 0

BadContrast(c) ==
  \/ typeof(c.contrast) # "number"
  \/ c.contrast.val < -1000
  \/ c.contrast.val > 1000

C17_RejectsBeforeAllocating ==
  /\ (status # "ready" /\ call.op = "gammaCorrection" /\ BadGamma(call))
       => /\ status = "threw"
          /\ threw = "Invalid gamma value"
          /\ ~allocated
          /\ result = << >>
  /\ (status # "ready" /\ call.op = "sigmoidContrast" /\ BadContrast(call))
       => /\ status = "threw"
          /\ threw = "Contrast must be between -1 and 1"
          /\ ~allocated
          /\ result = << >>

\* gammaCorrection called with gamma 0 on a buffer.
C17_Witness ==
  /\ status = "threw"
  /\ call.op = "gammaCorrection"
  /\ call.buffer = "pixels"
  /\ call.gamma = Num(0)
  /\ ~allocated

\* sigmoidContrast called with contrast 1.5, and with a string.
C17_WitnessContrast ==
  /\ status = "threw"
  /\ call.op = "sigmoidContrast"
  /\ call.contrast = Num(1500)
  /\ ~allocated

C17_WitnessString ==
  /\ status = "threw"
  /\ call.op \in {"gammaCorrection", "sigmoidContrast"}
  /\ (call.gamma = Str \/ call.contrast = Str)

\* --------------------------------------------------------------- C18
\* C18 (as stated): BasicFilters.gaussianBlur keeps the alpha of every
\* pixel, for every buffer and every radius from 1 to 50, also when the
\* neighbours of a pixel have another alpha.  In the code alpha is averaged
\* over the window like the colour channels.
C18_BlurAlphaPreserved ==
  Returned("gaussianBlur") => AlphaKept(result)

\* What the code keeps: a buffer whose pixels all have the same alpha comes
\* out with that alpha, and every output alpha lies between the smallest and
\* the largest input alpha.
C18_BlurAlphaAveraged ==
  Returned("gaussianBlur") =>
    \A k \in DOMAIN result :
      k % channels = 3 =>
        /\ \E j \in DOMAIN pixels : j % channels = 3 /\ pixels[j] <= result[k]
        /\ \E j \in DOMAIN pixels : j % channels = 3 /\ pixels[j] >= result[k]

\* --------------------------------------------------------------- C19
\* C19 (as stated): ssim returns 1 for two identical images of any width
\* and height with the default window of 11, also for an image smaller than
\* the window such as 8x8, and compare reports ssim 1 for them.  In the
\* code an image smaller than the window has no window, and ssim returns 0.
IdenticalImages ==
  /\ status = "returned"
  /\ call.buffer = "pixels"
  /\ call.compressed = "pixels2"
  /\ pixels2 = pixels

C19_SsimIdenticalIsOne ==
  /\ (IdenticalImages /\ call.op = "ssim" /\ call.windowSize = 11)
       => SsimIsOne(result)
  /\ (IdenticalImages /\ call.op = "compare") => SsimIsOne(result.ssim)

\* What the code returns for identical images: 1 when at least one whole
\* window fits (windowSize <= width and windowSize <= height), else 0; and
\* compare, which uses the default window, reports that value next to
\* psnr 100 and mse 0.
C19_SsimIdenticalByWindow ==
  /\ (IdenticalImages /\ call.op = "ssim")
       => IF call.windowSize <= width /\ call.windowSize <= height
          THEN SsimIsOne(result) ELSE SsimIsZero(result)
  /\ (IdenticalImages /\ call.op = "compare")
       => /\ IF 11 <= width /\ 11 <= height
             THEN SsimIsOne(result.ssim) ELSE SsimIsZero(result.ssim)
          /\ result.psnr.perfectMatch
          /\ result.mse[1] = 0

\* --------------------------------------------------------------- C20
\* C20 (as stated): Transform.crop throws when the region exceeds the image
\* (x < 0, y < 0, x + cropWidth > width or y + cropHeight > height), when
\* the buffer is null, and when width is not a number; otherwise it returns
\* cropWidth * cropHeight pixels, output pixel (cx, cy) being input pixel
\* (x + cx, y + cy); the sizes are not negative.  In the code a width that
\* is not a number is not rejected.
CropCalled == status # "ready" /\ call.op = "crop"

RegionExceedsImage ==
  \/ call.x.val < 0
  \/ call.y.val < 0
  \/ call.x.val + call.cropWidth.val > width
  \/ call.y.val + call.cropHeight.val > height

CropCopiesRegion ==
  /\ status = "returned"
  /\ result.width = call.cropWidth.val
  /\ result.height = call.cropHeight.val
  /\ Length(result.pixels) = call.cropWidth.val * call.cropHeight.val * channels
  /\ \A cx \in 0 .. call.cropWidth.val - 1, cy \in 0 .. call.cropHeight.val - 1 :
       \A ch \in 0 .. channels - 1 :
         result.pixels[(cy * call.cropWidth.val + cx) * channels + ch]
           = pixels[((call.y.val + cy) * width + (call.x.val + cx)) * channels + ch]

C20_CropRejectsOrCopies ==
  (/\ CropCalled
   /\ typeof(call.x) = "number"
   /\ call.cropWidth.val >= 0
   /\ call.cropHeight.val >= 0) =>
    IF \/ call.buffer = "null"
       \/ typeof(call.width) # "number"
       \/ RegionExceedsImage
    THEN status = "threw"
    ELSE CropCopiesRegion

\* What the code does: with a buffer and a numeric width, a region inside
\* the image with sizes that are not negative is copied and any region
\* that exceeds the image is rejected; a width that is not a number passes
\* both guards and gives cropWidth * cropHeight pixels of zeros.
C20_CropNumericWidth ==
  /\ (CropCalled /\ typeof(call.x) = "number" /\ call.buffer = "pixels"
        /\ typeof(call.width) = "number")
       => IF RegionExceedsImage THEN threw = "Crop region exceeds image boundaries"
          ELSE IF call.cropWidth.val < 0 \/ call.cropHeight.val < 0
          THEN TRUE
          ELSE CropCopiesRegion
  /\ (CropCalled /\ typeof(call.x) = "number" /\ call.buffer = "pixels"
        /\ typeof(call.width) # "number" /\ ~RegionExceedsImage)
       => /\ status = "returned"
          /\ result.pixels
               = ZeroBuffer(call.cropWidth.val * call.cropHeight.val * channels)

\* --------------------------------------------------------------- C21
\* C21 (as stated): with two filters and an array of several images, the
\* first invocation pipeline makes is of filter 1 and the second is of
\* filter 2.  In the code filter 1 is invoked on every image before filter
\* 2 is invoked on any.
TwoFiltersRan ==
  /\ status = "returned"
  /\ call.op = "pipeline"
  /\ Len(batch.filters) = 2
  /\ Len(batch.images) >= 2

C21_PipelineOrder ==
  TwoFiltersRan => batch.order[1] = 1 /\ batch.order[2] = 2

\* The order of the code: with n images the log is n times filter 1, then
\* n times filter 2.
C21_PipelineFilterMajor ==
  TwoFiltersRan =>
    /\ Len(batch.order) = 2 * Len(batch.images)
    /\ \A k \in 1 .. Len(batch.order) :
         batch.order[k] = IF k <= Len(batch.images) THEN 1 ELSE 2

\* --------------------------------------------------------------- C22
\* C22: batch returns one record per image of the array, in the order of
\* the array; the record of an image for which the filter throws has
\* processed false and error the message thrown, the records of the other
\* images have processed true, and every record has the name and the
\* format of its image.
C22_BatchRecords ==
  (status = "returned" /\ call.op = "batch") =>
    /\ Len(result) = Len(batch.images)
    /\ \A k \in 1 .. Len(batch.images) :
         LET image == batch.images[k]
             outcome == filterFn(batch.filters[1], image)
         IN /\ result[k].name = image.name
            /\ result[k].format = image.format
            /\ IF outcome.threw # ""
               THEN /\ result[k].processed = "false"
                    /\ result[k].error = outcome.threw
               ELSE /\ result[k].processed = "true"
                    /\ result[k].error = "undefined"

\* An array of which the filter fails on one image and not on the next.
C22_Witness ==
  /\ status = "returned"
  /\ call.op = "batch"
  /\ Len(result) >= 2
  /\ \E k \in 1 .. Len(result) - 1 :
       /\ result[k].processed = "false"
       /\ result[k].error = "Invalid edge detection parameters"
       /\ result[k + 1].processed = "true"
       /\ result[k + 1].name # result[k].name

\* The throwing filter of the tests: every record is marked failed.
C22_WitnessAllFail ==
  /\ status = "returned"
  /\ call.op = "batch"
  /\ Len(result) = 3
  /\ \A k \in 1 .. 3 :
       result[k].processed = "false" /\ result[k].error = "Filter failed"

\* --------------------------------------------------------------- C23
\* C23: in the output of sobel, prewitt, laplacian and of applyKernel
\* (sharpen, emboss) every pixel of the first and last row and column is 0
\* in all four channels; the smoothing stage of canny writes every pixel,
\* the border included, and copies its alpha; so a buffer with width < 3 or
\* height < 3 gives an all-zero sobel, prewitt or laplacian output, and no
\* error.
OnBorder(k) ==
  LET p == k \div channels
  IN \/ p % width = 0
     \/ p % width = width - 1
     \/ p \div width = 0
     \/ p \div width = height - 1

KernelOps == {"sobel", "prewitt", "laplacian", "sharpen", "emboss"}

\* The values of channel c that the clamped 3x3 window of pixel p samples.
WindowValues(p, c) ==
  { pixels[(Min(height - 1, Max(0, (p \div width) + dy)) * width
              + Min(width - 1, Max(0, (p % width) + dx))) * channels + c] :
      dx \in -1 .. 1, dy \in -1 .. 1 }

C23_WitnessSmoothing ==
  /\ Returned("EdgeDetection.gaussianBlur")
  /\ width = 3 /\ height = 3
  /\ result[0] > 0
  /\ result[3] = pixels[3]
  /\ result[3] > 0

\* sobel on a 1x1 buffer, as in the test of the very small image.
C23_WitnessSmall ==
  /\ Returned("sobel")
  /\ OwnDims
  /\ width = 1 /\ height = 1
  /\ pixels[3] = 255
  /\ result = ZeroBuffer(4)

\* --------------------------------------------------------------- C24
\* C24: clipHistogram caps every bin at limit = round(clipLimit * mean bin
\* count) and changes nothing else: every bin becomes min(old bin, limit),
\* a bin at or below the limit is unchanged, the excess is discarded, and
\* the sum of the bins does not increase.
Clipped == status = "returned" /\ call.op = "clipHistogram"

LimitBefore ==
  MathRound(call.clipLimit.val * SumBins(result2, 0, NumBins - 1), NumBins)

C24_ClipCapsBins ==
  Clipped =>
    LET limit == LimitBefore
    IN /\ DOMAIN histogram = 0 .. NumBins - 1
       /\ \A i \in 0 .. NumBins - 1 :
            /\ histogram[i] = Min(result2[i], limit)
            /\ result2[i] <= limit => histogram[i] = result2[i]
       /\ SumBins(histogram, 0, NumBins - 1)
            <= SumBins(result2, 0, NumBins - 1)

\* A histogram with a bin above the limit and a bin below it: the sum
\* drops by the excess.
C24_Witness ==
  /\ Clipped
  /\ LET limit == LimitBefore
     IN /\ \E i \in 0 .. NumBins - 1 : result2[i] > limit
        /\ \E i \in 0 .. NumBins - 1 : result2[i] > 0 /\ result2[i] < limit
  /\ SumBins(histogram, 0, NumBins - 1) < SumBins(result2, 0, NumBins - 1)

\* The histogram of the test: every bin 100, limit 200, nothing clipped.
C24_WitnessFlat ==
  /\ Clipped
  /\ call.clipLimit = Num(2)
  /\ result2 = [i \in 0 .. NumBins - 1 |-> 100]
  /\ histogram = result2

\* --------------------------------------------------------------- C25
\* C25: the table calculateLUT returns has 256 entries, each in 0 .. 255,
\* and never decreases from one index to the next; when CDF[255] > CDF[0],
\* that is when some bin above bin 0 is not empty, LUT[0] = 0 and
\* LUT[255] = 255.
LutReturned == status = "returned" /\ call.op = "calculateLUT"

MassAboveBinZero ==
  SumBins(histogram, 0, NumBins - 1) > histogram[0]

C25_LutMonotone ==
  LutReturned =>
    /\ DOMAIN result = 0 .. NumBins - 1
    /\ \A i \in 0 .. NumBins - 1 : result[i] \in 0 .. maxPixelValue
    /\ \A i \in 0 .. NumBins - 2 : result[i] <= result[i + 1]
    /\ MassAboveBinZero =>
         /\ result[0] = 0
         /\ result[NumBins - 1] = maxPixelValue

\* A clipped histogram with a non-empty bin 0 and mass above it: the table
\* rises from 0 to 255 through values in between.
C25_Witness ==
  /\ LutReturned
  /\ MassAboveBinZero
  /\ histogram[0] > 0
  /\ result2 # << >>
  /\ result2 # histogram
  /\ result[0] = 0
  /\ result[NumBins - 1] = maxPixelValue
  /\ \E i \in 1 .. NumBins - 2 : result[i] > 0 /\ result[i] < maxPixelValue

\* The histogram of the test: every bin 10.
C25_WitnessFlat ==
  /\ LutReturned
  /\ histogram = [i \in 0 .. NumBins - 1 |-> 10]
  /\ result[128] = 128

\* --------------------------------------------------------------- C26
\* C26: when CDF[255] = CDF[0] for the clipped histogram of a tile (all of
\* its mass in bin 0, or no mass at all), the division by zero does not
\* make the call fail: the LUT of the tile is the all-zero table or the
\* identity table, and clahe returns a buffer of the length of pixels.
DegenerateCdf(h) == SumBins(h, 0, NumBins - 1) = h[0]

IdentityLUT == [i \in 0 .. NumBins - 1 |-> i]

ClippedOf(tile) == clipHistogram(tile.histogram, call.clipLimit.val)

C26_DegenerateLut ==
  (call.op = "clahe" /\ status # "ready") =>
    /\ status = "returned"
    /\ threw = ""
    /\ Length(result) = Length(pixels)
    /\ \A t \in DOMAIN tiles :
         DegenerateCdf(ClippedOf(tiles[t])) =>
           \/ tiles[t].lut = ZeroHistogram
           \/ tiles[t].lut = IdentityLUT

\* A black tile of several pixels under clipLimit 128: the clipped
\* histogram keeps a positive count in bin 0 and nothing above it.
C26_Witness ==
  /\ Returned("clahe")
  /\ \E t \in DOMAIN tiles :
       LET clipped == ClippedOf(tiles[t])
       IN /\ TilePixels(tiles[t]) >= 2
          /\ clipped[0] > 0
          /\ DegenerateCdf(clipped)
          /\ tiles[t].lut = ZeroHistogram

\* A coloured tile whose histogram is clipped to nothing.
C26_WitnessEmptied ==
  /\ Returned("clahe")
  /\ \E t \in DOMAIN tiles :
       /\ tiles[t].histogram[105] > 0
       /\ ClippedOf(tiles[t]) = ZeroHistogram
       /\ tiles[t].lut = ZeroHistogram

\* --------------------------------------------------------------- C27
\* C27: equalize builds one table from the luma histogram of the whole
\* buffer, LUT[i] = round((CDF[i] - CDF[0]) / (numPixels - CDF[0]) * 255)
\* with numPixels = width * height, and every R, G and B byte of the output
\* is that table looked up at the byte's own input value; alpha is copied.
\* (CDF[i] is counted here as the number of pixels of luma at most i; a
\* quotient 0/0 is stored as 0.)
LumasOf(buf, n) ==
  [p \in 0 .. n - 1 |->
     LumaClamped(buf[p * channels], buf[p * channels + 1],
                 buf[p * channels + 2])]

CdfAt(lumas, v) == Cardinality({p \in DOMAIN lumas : lumas[p] <= v})

C27_EqualizeGlobalLut ==
  (Returned("equalize") /\ OwnDims) =>
    LET numPixels == width * height
        lumas == Evaluated(LumasOf(pixels, numPixels))
        cdfMin == CdfAt(lumas, 0)
    IN /\ DOMAIN result = DOMAIN pixels
       /\ \A k \in DOMAIN pixels :
            result[k] =
              IF k % channels = 3 THEN pixels[k]
              ELSE IF numPixels = cdfMin THEN 0
              ELSE MathRound(255 * (CdfAt(lumas, pixels[k]) - cdfMin),
                             numPixels - cdfMin)

\* A buffer with a colour whose channels lie on both sides of its luma:
\* its green byte maps to 0 and its red byte to a value above 0.
C27_Witness ==
  /\ Returned("equalize")
  /\ OwnDims
  /\ \E p \in 0 .. width * height - 1 :
       LET idx == p * channels
       IN /\ pixels[idx] = 200 /\ pixels[idx + 1] = 60
          /\ result[idx] > 0
          /\ result[idx] < maxPixelValue
          /\ result[idx + 1] = 0
          /\ result[idx + 3] = 128

\* --------------------------------------------------------------- C28
\* C28: the output does not depend on the order of the passes: whatever
\* the order in which the interior pixels of sobel, prewitt or laplacian,
\* or the tiles of clahe, are processed, the buffer returned is the one
\* the loops give in their own order; while passes remain, every byte is
\* either still 0 or already what it will be at the end.
SequentialOutput ==
  CASE call.op = "sobel" ->
         applyGradient(pixels, width, height, SobelGx, SobelGy)
    [] call.op = "prewitt" ->
         applyGradient(pixels, width, height, PrewittGx, PrewittGy)
    [] call.op = "laplacian" -> laplacianBody(pixels, width, height)
    [] call.op = "clahe" ->
         applyTiles(pixels, width, height,
                    Evaluated(claheTiles(pixels, width, height,
                                         call.clipLimit.val,
                                         call.gridSize.val)))

C28_OrderIndependent ==
  /\ status = "returned" => result = SequentialOutput
  /\ status = "running" =>
       LET out == Evaluated(SequentialOutput)
       IN \A k \in DOMAIN result : result[k] = 0 \/ result[k] = out[k]

\* The loop order of the passes: rows (tile rows) outermost.
InLoopOrder(done) ==
  \A m \in 1 .. Len(done) - 1 :
    \/ done[m][1] < done[m + 1][1]
    \/ done[m][1] = done[m + 1][1] /\ done[m][2] < done[m + 1][2]

\* sobel returned after its interior pixels were processed last first,
\* with an edge in the output.
C28_Witness ==
  /\ Returned("sobel")
  /\ Len(steps.done) >= 4
  /\ steps.done[1] = << height - 2, width - 2 >>
  /\ steps.done[Len(steps.done)] = << 1, 1 >>
  /\ ~InLoopOrder(steps.done)
  /\ \E k \in DOMAIN result : k % channels = 0 /\ result[k] > 0

\* clahe returned after its four tiles were processed out of order, with
\* a tile that is not all zero.
C28_WitnessTiles ==
  /\ Returned("clahe")
  /\ Len(steps.done) = 4
  /\ ~InLoopOrder(steps.done)
  /\ steps.done[1] = << 1, 1 >>
  /\ \E k \in DOMAIN result : k % channels = 0 /\ result[k] > 0

\* --------------------------------------------------------------- C29
\* C29: in clahe, a tile of n pixels with round(clipLimit * n / 256) = 0
\* has an all-zero clipped histogram, and every R, G and B byte of every
\* pixel of the tile is 0 in the output whatever its input colour; alpha
\* is carried over.
RoundsToZero(tile) ==
  MathRound(call.clipLimit.val * TilePixels(tile), NumBins) = 0

UniformGray(v) ==
  \A k \in DOMAIN pixels : k % channels # 3 => pixels[k] = v

C30_UniformGray ==
  (/\ call.op = "equalize"
   /\ status # "ready"
   /\ OwnDims
   /\ \E v \in 0 .. maxPixelValue : UniformGray(v)) =>
    /\ status = "returned"
    /\ DOMAIN result = DOMAIN pixels
    /\ \A k \in DOMAIN pixels :
         result[k] = IF k % channels = 3 THEN pixels[k]
                     ELSE IF pixels[k] = 0 THEN 0
                     ELSE maxPixelValue

\* The uniform image of the test: every byte 128 but alpha, 255.
C30_Witness ==
  /\ Returned("equalize")
  /\ OwnDims
  /\ width * height >= 2
  /\ UniformGray(128)
  /\ \A k \in DOMAIN result : result[k] = 255

\* A black buffer with half-transparent pixels: colours 0, alpha kept.
C30_WitnessBlack ==
  /\ Returned("equalize")
  /\ OwnDims
  /\ width * height >= 2
  /\ UniformGray(0)
  /\ \A k \in DOMAIN result :
       result[k] = IF k % channels = 3 THEN 128 ELSE 0

====
